---- MODULE Spec2Model ----
(***************************************************************************)
(* Payment dispatch and settlement engine of the gateway (routes/pay):     *)
(* order creation and reuse, channel lock, callback settlement, and the    *)
(* request authentication of the submission and query endpoints.           *)
(*                                                                         *)
(* Every request in flight is a handler in the bag inflight; every awaited *)
(* database statement that touches orders or merchants is one step, so     *)
(* that handlers interleave where the code suspends.  Statements that only *)
(* read configuration that no modelled handler writes are folded into the  *)
(* neighbouring step.                                                      *)
(*                                                                         *)
(* Amounts are in cents, rates in basis points (1/10000).                  *)
(***************************************************************************)
EXTENDS Integers, Sequences, FiniteSets, Bags, TLC

\* ------------------------------------------------------------- bounds
MaxProcs == 2
MaxRequests == 3
MaxAuthRequests == 1

NULL == 0

\* ------------------------------------------------------------- tables
\* a column or JSON member that is null or absent
NullRate == -2000000
\* a stored rate that parseFloat turns into NaN
NaNRate == -1000000

\* merchants: user_id -> row.  merchant_fee_rate is the raw stored fee_rate
\* scaled by 10000 (30000 is the stored percentage 3, 300 the stored decimal
\* 0.03); merchant_fee_rates is the fee_rates map, pay type -> raw rate.
MerchantIds == {1, 2, 3}
MerchantTable ==
  [m \in MerchantIds |->
     CASE m = 1 -> [status |-> "active", has_rsa |-> TRUE,  merchant_fee_rates |-> <<>>,
                    merchant_fee_rate |-> 30000, fee_payer |-> "merchant", pay_group_id |-> NULL]
       [] m = 2 -> [status |-> "active", has_rsa |-> FALSE, merchant_fee_rates |-> <<>>,
                    merchant_fee_rate |-> 300,   fee_payer |-> "merchant", pay_group_id |-> NULL]
       [] m = 3 -> [status |-> "paused", has_rsa |-> TRUE,  merchant_fee_rates |-> <<>>,
                    merchant_fee_rate |-> 300,   fee_payer |-> "merchant", pay_group_id |-> NULL]]

\* payTypes: name -> id (NULL: getPayTypeByName finds nothing)
getPayTypeByName(name) ==
  CASE name = "alipay" -> 1
    [] name = "wxpay" -> 2
    [] OTHER -> NULL

\* provider_pay_groups: id -> row; config maps a pay type id to its rate
\* (a percentage, scaled by 10000), channel_mode and polling group
PayGroupTable ==
  (1 :> [is_default |-> 1,
         config |-> (1 :> [rate |-> 60000, channel_mode |-> -1, group_id |-> NULL])])

\* channel_groups (polling groups): none configured
ChannelGroupTable == <<>>

\* config.params.force_min_age of a channel, or the min_age of a request,
\* that is null, undefined or empty
NoAge == -1
\* an age that parseInt turns into NaN
NaNAge == -2

\* provider_channels: id -> row (all serve alipay; channel 1 demands buyers of
\* 18 or more; channel 3 is disabled)
ChannelIds == {1, 2, 3}
ChannelTable ==
  [c \in ChannelIds |->
     CASE c = 1 -> [status |-> 1, priority |-> 2, pay_type |-> {"alipay"}, min_amount |-> 100, max_amount |-> 1000000, plugin_name |-> 1,
                    force_min_age |-> 18]
       [] c = 2 -> [status |-> 1, priority |-> 1, pay_type |-> {"alipay"}, min_amount |-> 100, max_amount |-> 1000000, plugin_name |-> 2,
                    force_min_age |-> NoAge]
       [] c = 3 -> [status |-> 0, priority |-> 3, pay_type |-> {"alipay"}, min_amount |-> 100, max_amount |-> 1000000, plugin_name |-> 3,
                    force_min_age |-> NoAge]]

PayTypes == {"alipay"}
OutTradeNos == {1}
Moneys == {10000}
SettleMerchants == {1}

VARIABLES
  orders,    \* the orders table: sequence of rows, id = index
  balance,   \* merchants.balance, by user_id
  ledger,    \* history: amount committed to the merchant's balance per order id
  inflight,  \* bag of the handlers in flight: each its kind, position and locals
  resp,      \* the response most recently sent
  now,       \* the latest time a statement has read from NOW()
  started    \* number of requests received so far

vars == <<orders, balance, ledger, inflight, resp, now, started>>

OrderIds == 1..Len(orders)

\* ------------------------------------------------------------- pure helpers
\* raw and result scaled by 10000: a raw value >= 1 is a percentage
normalizeRateToDecimal(raw) ==
  IF raw = NaNRate THEN 0
  ELSE IF raw >= 10000 THEN raw \div 100 ELSE raw

\* the pay group both getMerchantFeeRate and selectChannelFromGroup settle
\* on: the one asked for, else the default one, else the lowest id
ResolvePayGroup(groups, id) ==
  IF id # NULL /\ id \in DOMAIN groups THEN id
  ELSE IF \E g \in DOMAIN groups : groups[g].is_default = 1
       THEN CHOOSE g \in DOMAIN groups : groups[g].is_default = 1
  ELSE IF DOMAIN groups # {}
       THEN CHOOSE g \in DOMAIN groups : \A k \in DOMAIN groups : g <= k
  ELSE NULL

\* the cascade taken in the order uniform rate, per-type map, pay group
getMerchantFeeRateUniformFirst(merchant, payType, groups) ==
  IF merchant.merchant_fee_rate # NullRate
    THEN normalizeRateToDecimal(merchant.merchant_fee_rate)
  ELSE IF payType \in DOMAIN merchant.merchant_fee_rates
          /\ merchant.merchant_fee_rates[payType] # NullRate
    THEN normalizeRateToDecimal(merchant.merchant_fee_rates[payType])
  ELSE 0

\* getMerchantFeeRate(merchant, payType), groups being provider_pay_groups
getMerchantFeeRate(merchant, payType, groups) ==
  IF payType \in DOMAIN merchant.merchant_fee_rates
     /\ merchant.merchant_fee_rates[payType] # NullRate
    THEN normalizeRateToDecimal(merchant.merchant_fee_rates[payType])
  ELSE IF merchant.merchant_fee_rate # NullRate
    THEN normalizeRateToDecimal(merchant.merchant_fee_rate)
  ELSE LET payGroup == ResolvePayGroup(groups, merchant.pay_group_id)
           payTypeId == getPayTypeByName(payType)
       IN IF payGroup = NULL \/ DOMAIN groups[payGroup].config = {} THEN 0
          ELSE IF payTypeId = NULL THEN 0
          ELSE IF payTypeId \in DOMAIN groups[payGroup].config
                  /\ groups[payGroup].config[payTypeId].rate # NullRate
            THEN groups[payGroup].config[payTypeId].rate \div 100
          ELSE 0

\* the merchant row as /dopay selects it: fee_rate, fee_payer, pay_group_id
DoPayMerchant(merchant) == [merchant EXCEPT !.merchant_fee_rates = <<>>]

\* parseFloat((money * feeRate).toFixed(2)), money in cents, rate in 1/10000
FeeMoney(money, feeRate) == IF feeRate = 0 THEN 0 ELSE (money * feeRate + 5000) \div 10000

RealMoney(money, feeMoney, feePayer) == IF feePayer = "buyer" THEN money + feeMoney ELSE money

Max(S) == CHOOSE x \in S : \A y \in S : y <= x
Min(S) == CHOOSE x \in S : \A y \in S : x <= y

\* getChannel(type): enabled channel of the type with the highest priority
getChannel(type) ==
  LET cs == {c \in ChannelIds : type \in ChannelTable[c].pay_type /\ ChannelTable[c].status = 1}
  IN IF cs = {} THEN NULL
     ELSE CHOOSE c \in cs : \A d \in cs : ChannelTable[d].priority <= ChannelTable[c].priority

Handlers == BagToSet(inflight)

\* generateTradeNo(): a number no row and no handler in flight carries
generateTradeNo ==
  Min((1..(MaxRequests + 1))
        \ ({orders[i].trade_no : i \in OrderIds} \cup {h.tno : h \in Handlers}))

\* the locals of a handler
NewHandler ==
  [kind |-> "", pc |-> "", oid |-> NULL, mid |-> NULL, chan |-> NULL, ptype |-> "",
   money |-> 0, fee |-> 0, outno |-> NULL, tno |-> NULL, api |-> NULL, buyer |-> NULL,
   settle |-> 0, txBal |-> 0, txFlag |-> FALSE, note |-> "", minAge |-> NoAge]

\* ------------------------------------------------------------- requests
\* the server's clock while the submission and query endpoints are exercised
ServerNow == 1000
\* validateTimestamp: diff <= 300
ReplayWindow == 300
\* a timestamp parameter that parseInt turns into NaN
NaNTs == -1

\* timestamp values: absent, not a number, just outside the window and on
\* its edge
Timestamps == {NULL, NaNTs, ServerNow - ReplayWindow - 1, ServerNow - ReplayWindow}

Paths ==
  {"/submit", "/submit.php", "/mapi", "/mapi.php", "/create", "/query", "/api.php",
   "/v2/query"}

\* money values of the requests: below, inside (two values) and above the
\* channels' bounds
AuthMoneys == {50, 10000, 20000, 2000000}

\* the parameters of a request.  sign is the verdict of the signature
\* library on the request's sign, over the parameters the routed handler
\* signs: it verifies under MD5 with the merchant's api_key ("md5"), under
\* RSA with the merchant's public key ("rsa"), or under neither ("bad").
\* cert stands for cert_no / min_age: absent, a malformed id number, a
\* malformed minimum age.  domain is the verdict of the callback-domain
\* whitelist on notify_url.
\* Requests that vary the authentication parameters:
AuthRequests ==
  [path : Paths, pid : MerchantIds, timestamp : Timestamps,
   sign_type : {"", "MD5", "RSA"}, sign : {"md5", "rsa", "bad"},
   type : PayTypes, out_trade_no : OutTradeNos, money : Moneys,
   cert : {""}, domain : {"allowed"}, channel_id : {NULL}, min_age : {NoAge}]

\* Requests of merchant 1, signed as their protocol version asks, that vary
\* the validated parameters:
CertRequests ==
  [path : Paths, pid : {1}, timestamp : {NULL}, sign_type : {""}, sign : {"md5"},
   type : PayTypes \cup {""}, out_trade_no : OutTradeNos, money : Moneys,
   cert : {"", "bad_cert_no", "bad_min_age"}, domain : {"allowed", "denied"},
   channel_id : {NULL}, min_age : {NoAge}]
  \cup
  [path : Paths, pid : {1}, timestamp : {ServerNow - ReplayWindow}, sign_type : {""},
   sign : {"rsa"},
   type : PayTypes \cup {""}, out_trade_no : OutTradeNos, money : Moneys,
   cert : {"", "bad_cert_no", "bad_min_age"}, domain : {"allowed", "denied"},
   channel_id : {NULL}, min_age : {NoAge}]

AmountRequests ==
  [path : Paths, pid : {1}, timestamp : {NULL}, sign_type : {""}, sign : {"md5"},
   type : PayTypes \cup {""}, out_trade_no : OutTradeNos, money : AuthMoneys,
   cert : {""}, domain : {"allowed"}, channel_id : {NULL, 1, 3}, min_age : {NoAge}]
  \cup
  [path : Paths, pid : {1}, timestamp : {ServerNow - ReplayWindow}, sign_type : {""},
   sign : {"rsa"},
   type : PayTypes \cup {""}, out_trade_no : OutTradeNos, money : AuthMoneys,
   cert : {""}, domain : {"allowed"}, channel_id : {NULL, 1, 3}, min_age : {NoAge}]

\* Requests of merchant 1 that carry a valid min_age (cert_info.min_age of
\* the order):
AgeRequests ==
  [path : Paths, pid : {1}, timestamp : {NULL}, sign_type : {""}, sign : {"md5"},
   type : PayTypes \cup {""}, out_trade_no : OutTradeNos, money : Moneys,
   cert : {""}, domain : {"allowed"}, channel_id : {NULL, 1}, min_age : {0, 16, 18}]
  \cup
  [path : Paths, pid : {1}, timestamp : {ServerNow - ReplayWindow}, sign_type : {""},
   sign : {"rsa"},
   type : PayTypes \cup {""}, out_trade_no : OutTradeNos, money : Moneys,
   cert : {""}, domain : {"allowed"}, channel_id : {NULL, 1}, min_age : {0, 16, 18}]

Requests == AuthRequests \cup CertRequests \cup AmountRequests \cup AgeRequests

NoReq ==
  [path |-> "", pid |-> NULL, timestamp |-> NULL, sign_type |-> "", sign |-> "",
   type |-> "", out_trade_no |-> NULL, money |-> 0, cert |-> "", domain |-> "",
   channel_id |-> NULL, min_age |-> NoAge]

\* a response without a status member
NoStatus == -1

NoResp ==
  [kind |-> "", code |-> "", oid |-> NULL, tno |-> NULL, note |-> "", req |-> NoReq,
   status |-> NoStatus]

\* a request arrives
Receive ==
  /\ BagCardinality(inflight) < MaxProcs
  /\ started < MaxRequests
  /\ started' = started + 1

\* a request arrives at the submission and query endpoints once the one
\* before it has been answered
ReceiveNext ==
  /\ inflight = EmptyBag
  /\ started < MaxAuthRequests
  /\ started' = started + 1

\* the handler suspends at its next statement / takes its next step / ends
Enter(h2) == inflight' = inflight (+) SetToBag({h2})
Move(h, h2) == inflight' = (inflight (-) SetToBag({h})) (+) SetToBag({h2})
Leave(h) == inflight' = inflight (-) SetToBag({h})

Respond(kind, code, oid, tno, note) ==
  resp' = [kind |-> kind, code |-> code, oid |-> oid, tno |-> tno, note |-> note,
           req |-> NoReq, status |-> NoStatus]

\* InnoDB row locks: a transaction holds the order row from its
\* SELECT ... FOR UPDATE, and the merchant row from its balance UPDATE,
\* until commit or rollback; a statement on a locked row waits.
TxPcs == {"tx_balance", "tx_flag", "tx_commit"}
OrderRowFree(h, id) == {q \in Handlers : q.pc \in TxPcs /\ q.oid = id} \subseteq {h}
MerchantRowFree(h, m) ==
  {q \in Handlers : q.pc \in {"tx_flag", "tx_commit"} /\ q.txBal > 0
                     /\ orders[q.oid].merchant_id = m} \subseteq {h}

\* ------------------------------------------------------------- createOrder
\* SELECT ... WHERE merchant_id = ? AND out_trade_no = ? AND status = 0
\*   ORDER BY id DESC LIMIT 1
ExistingPending(m, o) ==
  LET ids == {i \in OrderIds : orders[i].merchant_id = m /\ orders[i].out_trade_no = o
                                 /\ orders[i].status = 0}
  IN IF ids = {} THEN NULL ELSE Max(ids)

\* A submission handler up to and including createOrder's SELECT.  The
\* channel is the one the handler resolved: none without a type, the
\* explicit channel_id when given, getChannel(type) otherwise.
SubmitBegin ==
  /\ Receive
  /\ \E m \in SettleMerchants, o \in OutTradeNos, type \in PayTypes \cup {""},
        chanIn \in ChannelIds \cup {NULL}, money \in Moneys :
       LET chan == IF type = "" THEN NULL
                   ELSE IF chanIn # NULL THEN chanIn ELSE getChannel(type)
           feeRate == IF type = "" THEN 0 ELSE getMerchantFeeRate(MerchantTable[m], type, PayGroupTable)
           ex == ExistingPending(m, o)
       IN /\ type # "" => /\ chan # NULL
                          /\ ChannelTable[chan].status = 1
                          /\ money >= ChannelTable[chan].min_amount
                          /\ money <= ChannelTable[chan].max_amount
          /\ Enter([NewHandler EXCEPT !.kind = "submit",
                                      !.pc = IF ex = NULL THEN "co_insert" ELSE "co_update",
                                      !.oid = ex, !.mid = m,
                                      !.chan = chan, !.ptype = type,
                                      !.money = money,
                                      !.fee = FeeMoney(money, feeRate),
                                      !.outno = o, !.tno = generateTradeNo])
  /\ UNCHANGED <<orders, balance, ledger, resp, now>>

\* UPDATE orders SET channel_id, pay_type, notify_url, return_url, fee_money,
\*   real_money, fee_payer, cert_info WHERE id = ?   (the reuse branch)
ReusedRow(row, h) ==
  [row EXCEPT !.channel_id = h.chan,
              !.pay_type = h.ptype,
              !.fee_money = h.fee,
              !.real_money = RealMoney(h.money, h.fee, MerchantTable[h.mid].fee_payer),
              !.fee_payer = MerchantTable[h.mid].fee_payer,
              !.min_age = h.minAge]

\* a reuse branch that would answer with the generated trade_no
CreateOrderUpdateAnswersFresh(h) ==
  /\ h.pc = "co_update"
  /\ OrderRowFree(h, h.oid)
  /\ orders' = [orders EXCEPT ![h.oid] = ReusedRow(@, h)]
  /\ Leave(h)
  /\ Respond("submit", "reused", h.oid, h.tno, "")
  /\ UNCHANGED <<balance, ledger, now, started>>

\* the reuse branch: the UPDATE, and the handler answers with the existing
\* row's trade_no
CreateOrderUpdate(h) ==
  /\ h.pc = "co_update"
  /\ OrderRowFree(h, h.oid)
  /\ orders' = [orders EXCEPT ![h.oid] = ReusedRow(@, h)]
  /\ Leave(h)
  /\ Respond("submit", "reused", h.oid, orders[h.oid].trade_no, "")
  /\ UNCHANGED <<balance, ledger, now, started>>

NewOrderRow(h) ==
  [merchant_id |-> h.mid, out_trade_no |-> h.outno, trade_no |-> h.tno, status |-> 0,
   channel_id |-> h.chan, pay_type |-> h.ptype, plugin_name |-> NULL,
   money |-> h.money, fee_money |-> h.fee,
   real_money |-> RealMoney(h.money, h.fee, MerchantTable[h.mid].fee_payer),
   fee_payer |-> MerchantTable[h.mid].fee_payer,
   paid_at |-> NULL, api_trade_no |-> NULL, buyer |-> NULL,
   balance_added |-> FALSE, notify_status |-> 0, notify_count |-> 0,
   min_age |-> h.minAge]

\* INSERT INTO orders (...) VALUES (..., 0, ...); the handler answers with
\* the generated trade_no
CreateOrderInsert(h) ==
  /\ h.pc = "co_insert"
  /\ orders' = Append(orders, NewOrderRow(h))
  /\ ledger' = Append(ledger, 0)
  /\ Leave(h)
  /\ Respond("submit", "created", Len(orders) + 1, h.tno, "")
  /\ UNCHANGED <<balance, now, started>>

\* ------------------------------------------------------------- /select_channel
\* SELECT the order; an order that is not pending is rejected
SelectChannelBegin ==
  /\ Receive
  /\ \E id \in OrderIds, payType \in PayTypes :
       IF orders[id].status # 0
       THEN /\ Respond("select", "status_invalid", id, NULL, "")
            /\ UNCHANGED inflight
       ELSE /\ Enter([NewHandler EXCEPT !.kind = "select", !.pc = "sc_update", !.oid = id,
                                        !.ptype = payType])
            /\ UNCHANGED resp
  /\ UNCHANGED <<orders, balance, ledger, now>>

\* UPDATE orders SET pay_type = ? WHERE id = ?
SelectChannelUpdate(h) ==
  /\ h.pc = "sc_update"
  /\ OrderRowFree(h, h.oid)
  /\ orders' = [orders EXCEPT ![h.oid].pay_type = h.ptype]
  /\ Leave(h)
  /\ Respond("select", "ok", h.oid, NULL, "")
  /\ UNCHANGED <<balance, ledger, now, started>>

\* ------------------------------------------------------------- /dopay
\* the minAge filter of the polling-group branch: without a numeric minAge
\* every channel passes; a channel passes when it has no force_min_age (or
\* its config does not parse) or its force_min_age is a number <= minAge
EligibleInGroupNoFilter(channel, minAge) == TRUE

EligibleInGroup(channel, minAge) ==
  IF minAge \in {NoAge, NaNAge} THEN TRUE
  ELSE IF channel.force_min_age = NoAge THEN TRUE
  ELSE channel.force_min_age # NaNAge /\ channel.force_min_age <= minAge

\* the minAge filter of the direct branch
EligibleDirect(channel, minAge) ==
  IF minAge \in {NoAge, NaNAge} THEN TRUE
  ELSE IF channel.force_min_age = NoAge THEN TRUE
  ELSE channel.force_min_age # NaNAge /\ channel.force_min_age <= minAge

\* typeConfig && typeConfig.channel_mode === 0
DisabledNever(config, payTypeId) == FALSE

Disabled(config, payTypeId) ==
  payTypeId \in DOMAIN config /\ config[payTypeId].channel_mode = 0

\* a member of channel_groups.channels without a weight
NoWeight == -1

\* c.weight || 1
Weight(c) == IF c.weight \in {NoWeight, 0} THEN 1 ELSE c.weight

\* filteredGroupChannels.reduce((sum, c) => sum + (c.weight || 1), 0)
RECURSIVE TotalWeight(_)
TotalWeight(s) == IF s = <<>> THEN 0 ELSE Weight(Head(s)) + TotalWeight(Tail(s))

\* the weighted draw: random = Math.random() * totalWeight lies in
\* (k, k + 1) for one k of 0 .. totalWeight - 1; the loop subtracts the
\* weights in list order and stops at the first member that brings random
\* to 0 or below
WeightedPick(s, k) ==
  LET i == CHOOSE i \in 1..Len(s) :
             /\ TotalWeight(SubSeq(s, 1, i)) > k
             /\ \A j \in 1..(i - 1) : TotalWeight(SubSeq(s, 1, j)) <= k
  IN s[i].id

\* group.mode === 2: the first member of the filtered list
FirstById(s) == Min({s[i].id : i \in DOMAIN s})

FirstAvailable(s) == s[1].id

\* the polling group returns when it selected a channel; otherwise the code
\* continues with the channels of the pay type
NoFallthrough(polled, direct) == polled

Fallthrough(polled, direct) == IF polled # {} THEN polled ELSE direct

\* the choice among the filtered channels of the pay type (ORDER BY id):
\* a single one is returned as it is; mode > 0 names a channel, the first
\* one stands in when it is not among them; -5 takes the first; every other
\* mode draws one at random
DirectPickRandom(filteredChannels, mode) == filteredChannels

DirectPickStrict(filteredChannels, mode) ==
  IF mode > 0 THEN filteredChannels \cap {mode}
  ELSE IF mode = -5 THEN {Min(filteredChannels)}
  ELSE filteredChannels

DirectPick(filteredChannels, mode) ==
  IF Cardinality(filteredChannels) = 1 THEN filteredChannels
  ELSE IF mode > 0
    THEN IF mode \in filteredChannels THEN {mode} ELSE {Min(filteredChannels)}
  ELSE IF mode = -5 THEN {Min(filteredChannels)}
  ELSE filteredChannels

\* selectChannelFromGroup(payType, payGroupId, { minAge }) on the tables
\* provider_pay_groups, channel_groups and provider_channels: the set of
\* outcomes it may have (Math.random picks any of them), each the returned
\* channel, the branch that returned it ("poll" or "direct") and the
\* weighted draw behind it; the empty set when it returns null
selectChannelFromGroup(payType, payGroupId, minAge, payGroups, channelGroups, channels) ==
  LET payGroup == ResolvePayGroup(payGroups, payGroupId)
      payTypeId == getPayTypeByName(payType)
      config == IF payGroup = NULL THEN <<>> ELSE payGroups[payGroup].config
      hasType == payTypeId # NULL /\ payTypeId \in DOMAIN config
      mode == IF hasType THEN config[payTypeId].channel_mode ELSE -1
      pollId == IF hasType THEN config[payTypeId].group_id ELSE NULL
      usePoll == /\ mode = -3
                 /\ pollId # NULL
                 /\ pollId \in DOMAIN channelGroups
                 /\ channelGroups[pollId].status = 1
      groupChannels == IF usePoll THEN channelGroups[pollId].channels ELSE <<>>
      eligibleChannels ==
        {c \in {groupChannels[i].id : i \in DOMAIN groupChannels} :
           /\ c \in DOMAIN channels
           /\ channels[c].status = 1
           /\ EligibleInGroup(channels[c], minAge)}
      filteredGroupChannels == SelectSeq(groupChannels, LAMBDA c : c.id \in eligibleChannels)
      polled ==
        IF eligibleChannels = {} THEN {}
        ELSE IF channelGroups[pollId].mode = 2
          THEN {[channel |-> FirstAvailable(filteredGroupChannels), via |-> "poll", draw |-> 0]}
        ELSE IF channelGroups[pollId].mode = 1
          THEN {[channel |-> WeightedPick(filteredGroupChannels, k), via |-> "poll", draw |-> k] :
                  k \in 0..(TotalWeight(filteredGroupChannels) - 1)}
        ELSE {[channel |-> c, via |-> "poll", draw |-> 0] : c \in eligibleChannels}
      typed == {c \in DOMAIN channels : payType \in channels[c].pay_type /\ channels[c].status = 1}
      filteredChannels == {c \in typed : EligibleDirect(channels[c], minAge)}
      direct ==
        IF filteredChannels = {} THEN {}
        ELSE {[channel |-> c, via |-> "direct", draw |-> 0] : c \in DirectPick(filteredChannels, mode)}
  IN IF Disabled(config, payTypeId) THEN {}
     ELSE Fallthrough(polled, direct)

\* merchantMinAge of /dopay: parseInt(certInfo.min_age) when cert_info
\* holds a min_age that is not falsy, else null
DoPayMinAge(o) == IF o.min_age \in {NoAge, 0} THEN NoAge ELSE o.min_age

\* /dopay's call: group_id of the request body (absent), minAge of the
\* order's cert_info
DoPayChannels(payType, minAge) ==
  {out.channel : out \in selectChannelFromGroup(payType, NULL, minAge, PayGroupTable,
                                                ChannelGroupTable, ChannelTable)}

\* SELECT the order, check status, then either use the locked channel or
\* select one and compute the fee fields for the lock
DoPayBegin ==
  /\ Receive
  /\ \E id \in OrderIds, payTypeIn \in PayTypes \cup {""} :
       LET o == orders[id]
           finalPayType == IF payTypeIn # "" THEN payTypeIn ELSE o.pay_type
           feeRate == getMerchantFeeRate(DoPayMerchant(MerchantTable[o.merchant_id]), finalPayType, PayGroupTable)
           base == [NewHandler EXCEPT !.kind = "dopay", !.oid = id, !.mid = o.merchant_id]
       IN IF o.status # 0
          THEN Respond("dopay", "status_invalid", id, NULL, "") /\ UNCHANGED inflight
          ELSE IF o.channel_id # NULL
          THEN Enter([base EXCEPT !.pc = "dp_plugin", !.chan = o.channel_id,
                                  !.ptype = o.pay_type]) /\ UNCHANGED resp
          ELSE IF finalPayType = ""
          THEN Respond("dopay", "no_pay_type", id, NULL, "") /\ UNCHANGED inflight
          ELSE IF DoPayChannels(finalPayType, DoPayMinAge(o)) = {}
          THEN Respond("dopay", "no_channel", id, NULL, "") /\ UNCHANGED inflight
          ELSE /\ \E c \in DoPayChannels(finalPayType, DoPayMinAge(o)) :
                    Enter([base EXCEPT !.pc = "dp_lock", !.chan = c, !.ptype = finalPayType,
                                       !.money = o.money,
                                       !.fee = FeeMoney(o.money, feeRate)])
               /\ UNCHANGED resp
  /\ UNCHANGED <<orders, balance, ledger, now>>

\* UPDATE orders SET channel_id, pay_type, plugin_name, fee_money, real_money,
\*   fee_payer WHERE id = ?   (the channel lock)
LockedRow(row, h) ==
  [row EXCEPT !.channel_id = h.chan,
              !.pay_type = h.ptype,
              !.plugin_name = ChannelTable[h.chan].plugin_name,
              !.fee_money = h.fee,
              !.real_money = RealMoney(h.money, h.fee, MerchantTable[h.mid].fee_payer),
              !.fee_payer = MerchantTable[h.mid].fee_payer]

DoPayLock(h) ==
  /\ h.pc = "dp_lock"
  /\ OrderRowFree(h, h.oid)
  /\ orders' = [orders EXCEPT ![h.oid] = LockedRow(@, h)]
  /\ Move(h, [h EXCEPT !.pc = "dp_plugin"])
  /\ UNCHANGED <<balance, ledger, resp, now, started>>

\* the plugin is invoked on the channel; it answers with a payment
\* instruction or with an error
DoPayPlugin(h) ==
  /\ h.pc = "dp_plugin"
  /\ Leave(h)
  /\ \E result \in {"ok", "plugin_error"} : Respond("dopay", result, h.oid, NULL, "")
  /\ UNCHANGED <<orders, balance, ledger, now, started>>

\* ------------------------------------------------------------- /notify, /return
\* what a plugin's notify / returnCallback may answer
PluginResults == [success : BOOLEAN, api_trade_no : {1}, buyer : {NULL, 1}]

\* how an order that a verified callback finds already paid stands
Standing(o) == IF o.balance_added THEN "paid_credited" ELSE "paid_uncredited"

\* /notify/:trade_no up to the plugin's verdict: SELECT the order and its
\* channel, verify with the plugin; only a verified callback on an order read
\* as pending goes on to the paid write
NotifyBegin ==
  /\ Receive
  /\ \E id \in OrderIds, r \in PluginResults :
       LET o == orders[id]
       IN IF o.channel_id = NULL
          THEN Respond("notify", "fail", id, NULL, "no_channel") /\ UNCHANGED inflight
          ELSE IF ~r.success
          THEN Respond("notify", "fail", id, NULL, "unverified") /\ UNCHANGED inflight
          ELSE IF o.status = 0
          THEN Enter([NewHandler EXCEPT !.kind = "notify", !.pc = "cb_paid", !.oid = id,
                                        !.mid = o.merchant_id,
                                        !.api = r.api_trade_no, !.buyer = r.buyer])
               /\ UNCHANGED resp
          ELSE Respond("notify", "success", id, NULL, Standing(o)) /\ UNCHANGED inflight
  /\ UNCHANGED <<orders, balance, ledger, now>>

\* /return/:trade_no up to the plugin's verdict
ReturnBegin ==
  /\ Receive
  /\ \E id \in OrderIds, r \in PluginResults, hasMsg \in BOOLEAN :
       LET o == orders[id]
       IN IF o.channel_id = NULL
          THEN Respond("return", "redirect", id, NULL, "no_channel") /\ UNCHANGED inflight
          ELSE IF ~r.success
          THEN Respond("return", IF hasMsg THEN "error" ELSE "redirect", id, NULL, "unverified")
               /\ UNCHANGED inflight
          ELSE IF o.status = 0
          THEN Enter([NewHandler EXCEPT !.kind = "return", !.pc = "cb_paid", !.oid = id,
                                        !.mid = o.merchant_id,
                                        !.api = r.api_trade_no, !.buyer = r.buyer])
               /\ UNCHANGED resp
          ELSE Respond("return", "redirect", id, NULL, Standing(o)) /\ UNCHANGED inflight
  /\ UNCHANGED <<orders, balance, ledger, now>>

\* NOW() as a statement reads it: the time of the latest earlier reading,
\* or later
Clock == {now, now + 1}

\* UPDATE orders SET status = 1, paid_at = NOW(), api_trade_no = ?, buyer = ?
\*   WHERE id = ?
PaidRow(row, h, t) ==
  [row EXCEPT !.status = 1, !.paid_at = t, !.api_trade_no = h.api, !.buyer = h.buyer]

NotifyUpdatePaid(h) ==
  /\ h.pc = "cb_paid" /\ h.kind = "notify"
  /\ OrderRowFree(h, h.oid)
  /\ \E t \in Clock :
       /\ orders' = [orders EXCEPT ![h.oid] = PaidRow(@, h, t)]
       /\ now' = t
  /\ Move(h, [h EXCEPT !.pc = "cb_reread"])
  /\ UNCHANGED <<balance, ledger, resp, started>>

ReturnUpdatePaid(h) ==
  /\ h.pc = "cb_paid" /\ h.kind = "return"
  /\ OrderRowFree(h, h.oid)
  /\ \E t \in Clock :
       /\ orders' = [orders EXCEPT ![h.oid] = PaidRow(@, h, t)]
       /\ now' = t
  /\ Move(h, [h EXCEPT !.pc = "cb_reread"])
  /\ UNCHANGED <<balance, ledger, resp, started>>

\* ------------------------------------------------------------- sendDownstreamNotify
\* SELECT * FROM orders WHERE id = ? (the caller's re-read), then
\* settleAmount = money - fee_money of that row
SettleBegin(h) ==
  /\ h.pc = "cb_reread"
  /\ LET o == orders[h.oid]
         settleAmount == o.money - o.fee_money
     IN Move(h, [h EXCEPT !.settle = settleAmount,
                          !.pc = IF settleAmount > 0 THEN "tx_select" ELSE "sdn_send"])
  /\ UNCHANGED <<orders, balance, ledger, resp, now, started>>

\* beginTransaction; SELECT balance_added FROM orders WHERE id = ? FOR UPDATE
TxSelectForUpdate(h) ==
  /\ h.pc = "tx_select"
  /\ OrderRowFree(h, h.oid)
  /\ Move(h, [h EXCEPT !.pc = IF orders[h.oid].balance_added THEN "tx_commit"
                                                              ELSE "tx_balance"])
  /\ UNCHANGED <<orders, balance, ledger, resp, now, started>>

\* UPDATE merchants SET balance = balance + ? WHERE user_id = ?  (uncommitted)
TxUpdateBalance(h) ==
  /\ h.pc = "tx_balance"
  /\ MerchantRowFree(h, h.mid)
  /\ Move(h, [h EXCEPT !.txBal = h.settle, !.pc = "tx_flag"])
  /\ UNCHANGED <<orders, balance, ledger, resp, now, started>>

\* UPDATE orders SET balance_added = 1 WHERE id = ?  (uncommitted)
TxUpdateFlag(h) ==
  /\ h.pc = "tx_flag"
  /\ Move(h, [h EXCEPT !.txFlag = TRUE, !.pc = "tx_commit"])
  /\ UNCHANGED <<orders, balance, ledger, resp, now, started>>

\* writes of h's transaction becoming the committed state
ApplyBalance(h) ==
  /\ balance' = [balance EXCEPT ![h.mid] = @ + h.txBal]
  /\ ledger' = [ledger EXCEPT ![h.oid] = @ + h.txBal]

ApplyFlag(h) ==
  orders' = [orders EXCEPT ![h.oid].balance_added = (@ \/ h.txFlag)]

\* connection.commit()
TxCommit(h) ==
  /\ h.pc = "tx_commit"
  /\ ApplyBalance(h)
  /\ ApplyFlag(h)
  /\ Move(h, [h EXCEPT !.pc = "sdn_send", !.txBal = 0, !.txFlag = FALSE,
                       !.note = IF h.txFlag THEN "credited" ELSE "already_credited"])
  /\ UNCHANGED <<resp, now, started>>

\* a rollback that would leave the balance update in place
TxRollbackKeepsBalance(h) ==
  /\ h.pc \in TxPcs \cup {"tx_select"}
  /\ ApplyBalance(h)
  /\ Move(h, [h EXCEPT !.pc = "sdn_send", !.txBal = 0, !.txFlag = FALSE,
                       !.note = IF h.txBal > 0 THEN "rolled_back_partway" ELSE "rolled_back"])
  /\ UNCHANGED <<orders, resp, now, started>>

\* a rollback after which the handler would answer without the delivery
TxRollbackSkipsNotify(h) ==
  /\ h.pc \in TxPcs \cup {"tx_select"}
  /\ Leave(h)
  /\ Respond(h.kind, IF h.kind = "notify" THEN "success" ELSE "redirect", h.oid, NULL,
             "rolled_back")
  /\ UNCHANGED <<orders, balance, ledger, now, started>>

\* a statement of the transaction throws: connection.rollback() discards
\* every write of the transaction
TxRollback(h) ==
  /\ h.pc \in TxPcs \cup {"tx_select"}
  /\ Move(h, [h EXCEPT !.pc = "sdn_send", !.txBal = 0, !.txFlag = FALSE,
                       !.note = IF h.txBal > 0 THEN "rolled_back_partway" ELSE "rolled_back"])
  /\ UNCHANGED <<orders, balance, ledger, resp, now, started>>

\* sendNotify to the merchant's notify_url, then
\* UPDATE orders SET notify_status = ?, notify_count = notify_count + 1;
\* the callback handler then answers the upstream
SendNotify(h) ==
  /\ h.pc = "sdn_send"
  /\ OrderRowFree(h, h.oid)
  /\ \E success \in BOOLEAN :
       orders' = [orders EXCEPT ![h.oid].notify_status = IF success THEN 1 ELSE 2,
                                ![h.oid].notify_count = @ + 1]
  /\ Leave(h)
  /\ Respond(h.kind, IF h.kind = "notify" THEN "success" ELSE "redirect", h.oid, NULL, h.note)
  /\ UNCHANGED <<balance, ledger, now, started>>

\* ------------------------------------------------------------- submission and query endpoints
\* One request at a time: each handler runs from its parameter checks to
\* its response.  The response records the signature scheme the handler
\* verified the request with (note) and the request it answers (req).
Abs(x) == IF x < 0 THEN -x ELSE x

\* Math.abs(now - parseInt(timestamp)) <= 300; a comparison with NaN is false
validateTimestamp(timestamp) ==
  timestamp # NaNTs /\ Abs(ServerNow - timestamp) <= ReplayWindow

\* a lookup that would not look at the merchant's status
getMerchantByPidAnyStatus(pid) == pid

\* ... WHERE pm.pid = ? AND pm.status IN ('active', 'approved')
getMerchantByPid(pid) ==
  IF MerchantTable[pid].status \in {"active", "approved"} THEN pid ELSE NULL

getMerchant(pid) ==
  IF MerchantTable[pid].status \in {"active", "approved"} THEN pid ELSE NULL

Answer(rq, kind, code, oid, tno, scheme) ==
  resp' = [kind |-> kind, code |-> code, oid |-> oid, tno |-> tno, note |-> scheme,
           req |-> rq, status |-> NoStatus]

\* a rejection that would come after the order row was written
RejectAfterInsert(rq, kind, code, scheme) ==
  /\ Answer(rq, kind, code, NULL, NULL, scheme)
  /\ orders' = Append(orders, NewOrderRow([NewHandler EXCEPT !.kind = kind, !.mid = rq.pid,
                                              !.ptype = rq.type, !.money = rq.money,
                                              !.outno = rq.out_trade_no,
                                              !.tno = generateTradeNo]))
  /\ ledger' = Append(ledger, 0)

\* an early return with an error response
Reject(rq, kind, code, scheme) ==
  /\ Answer(rq, kind, code, NULL, NULL, scheme)
  /\ UNCHANGED <<orders, ledger>>

\* createOrder run without interruption, and the handler's answer
createOrder(rq, kind, scheme, m, chan, feeRate) ==
  LET h == [NewHandler EXCEPT !.kind = kind, !.mid = m, !.chan = chan, !.ptype = rq.type,
                              !.money = rq.money, !.fee = FeeMoney(rq.money, feeRate),
                              !.outno = rq.out_trade_no, !.tno = generateTradeNo,
                              !.minAge = rq.min_age]
      ex == ExistingPending(m, rq.out_trade_no)
  IN IF ex # NULL
     THEN /\ orders' = [orders EXCEPT ![ex] = ReusedRow(@, h)]
          /\ ledger' = ledger
          /\ Answer(rq, kind, "ok", ex, orders[ex].trade_no, scheme)
     ELSE /\ orders' = Append(orders, NewOrderRow(h))
          /\ ledger' = Append(ledger, 0)
          /\ Answer(rq, kind, "ok", Len(orders) + 1, h.tno, scheme)

\* the channel and amount checks (a bound of 0 is no bound), then createOrder
CheckChannelAndCreate(rq, kind, scheme, m, chan, feeRate) ==
  IF rq.type # "" /\ chan = NULL THEN Reject(rq, kind, "no_channel", scheme)
  ELSE IF chan # NULL /\ ChannelTable[chan].min_amount # 0
          /\ rq.money < ChannelTable[chan].min_amount
  THEN Reject(rq, kind, "amount_low", scheme)
  ELSE IF chan # NULL /\ ChannelTable[chan].max_amount # 0
          /\ rq.money > ChannelTable[chan].max_amount
  THEN Reject(rq, kind, "amount_high", scheme)
  ELSE createOrder(rq, kind, scheme, m, chan, feeRate)

\* buildCertInfo(...).error: a malformed cert_no or min_age
buildCertInfoError(rq) == rq.cert \in {"bad_cert_no", "bad_min_age"}

\* validateCallbackDomain(merchant.user_id, notify_url).valid
validateCallbackDomain(rq) == rq.domain = "allowed"

\* SELECT ... FROM provider_channels WHERE id = ? AND status = 1
ChannelById(id) == IF ChannelTable[id].status = 1 THEN id ELSE NULL

\* SELECT pc.* FROM provider_channels pc WHERE pc.id = ? AND pc.status = 'active':
\* status is a number, which MySQL compares with the string as with 0
ChannelByIdActive(id) == IF ChannelTable[id].status = 0 THEN id ELSE NULL

\* the property name under which a status read from the orders table (a
\* number) is looked up in an object
StatusKey(status) ==
  CASE status = 0 -> "0"
    [] status = 1 -> "1"
    [] status = 2 -> "2"
    [] OTHER -> "3"

\* const statusMap = { 'pending': 0, 'paid': 1, 'closed': 2, 'refunded': 3 }
StatusMapByName == [pending |-> 0, paid |-> 1, closed |-> 2, refunded |-> 3]

\* const statusMap = { 0: 0, 1: 1, 2: 2, 3: 3 }
StatusMapByNumber == ("0" :> 0) @@ ("1" :> 1) @@ ("2" :> 2) @@ ("3" :> 3)

\* statusMap[order.status] || 0
ReportedStatus(statusMap, status) ==
  IF StatusKey(status) \in DOMAIN statusMap THEN statusMap[StatusKey(status)] ELSE 0

\* SELECT * FROM orders WHERE merchant_id = ? AND out_trade_no = ?, first
\* row; the response carries status: statusMap[order.status] || 0
QueryOrder(rq, kind, scheme, m, statusMap) ==
  LET ids == {i \in OrderIds : orders[i].merchant_id = m
                                 /\ orders[i].out_trade_no = rq.out_trade_no}
  IN /\ IF ids = {} THEN Answer(rq, kind, "order_not_found", NULL, NULL, scheme)
        ELSE \E id \in ids :
               resp' = [kind |-> kind, code |-> "ok", oid |-> id, tno |-> orders[id].trade_no,
                        note |-> scheme, req |-> rq,
                        status |-> ReportedStatus(statusMap, orders[id].status)]
     /\ UNCHANGED <<orders, ledger>>

\* router.all('/submit', ...), the handler registered first for the path
SubmitLegacy ==
  /\ ReceiveNext
  /\ \E rq \in Requests :
       /\ rq.path = "/submit"
       /\ LET m == getMerchantByPid(rq.pid)
          IN IF rq.type = "" THEN Reject(rq, "submit_v1", "missing_params", "")
             ELSE IF buildCertInfoError(rq) THEN Reject(rq, "submit_v1", "cert_invalid", "")
             ELSE IF m = NULL THEN Reject(rq, "submit_v1", "merchant_invalid", "")
             ELSE IF ~validateCallbackDomain(rq)
             THEN Reject(rq, "submit_v1", "domain_denied", "")
             ELSE IF rq.sign # "md5" THEN Reject(rq, "submit_v1", "sign_invalid", "MD5")
             ELSE CheckChannelAndCreate(rq, "submit_v1", "MD5", m, getChannel(rq.type),
                                        getMerchantFeeRate(MerchantTable[m], rq.type, PayGroupTable))
  /\ UNCHANGED <<balance, inflight, now>>

\* router.all('/mapi', ...), the handler registered first for the path
MapiLegacy ==
  /\ ReceiveNext
  /\ \E rq \in Requests :
       /\ rq.path = "/mapi"
       /\ LET m == getMerchantByPid(rq.pid)
          IN IF rq.type = "" THEN Reject(rq, "mapi_v1", "missing_params", "")
             ELSE IF buildCertInfoError(rq) THEN Reject(rq, "mapi_v1", "cert_invalid", "")
             ELSE IF m = NULL THEN Reject(rq, "mapi_v1", "merchant_invalid", "")
             ELSE IF ~validateCallbackDomain(rq)
             THEN Reject(rq, "mapi_v1", "domain_denied", "")
             ELSE IF rq.sign # "md5" THEN Reject(rq, "mapi_v1", "sign_invalid", "MD5")
             ELSE CheckChannelAndCreate(rq, "mapi_v1", "MD5", m, getChannel(rq.type),
                                        getMerchantFeeRate(MerchantTable[m], rq.type, PayGroupTable))
  /\ UNCHANGED <<balance, inflight, now>>

\* router.all('/query', ...), the handler registered first for the path
QueryLegacy ==
  /\ ReceiveNext
  /\ \E rq \in Requests :
       /\ rq.path = "/query"
       /\ LET m == getMerchant(rq.pid)
          IN IF m = NULL THEN Reject(rq, "query_v1", "merchant_invalid", "")
             ELSE IF rq.sign # "md5" THEN Reject(rq, "query_v1", "sign_invalid", "MD5")
             ELSE QueryOrder(rq, "query_v1", "MD5", m, StatusMapByName)
  /\ UNCHANGED <<balance, inflight, now>>

\* router.all('/create', ...)
Create ==
  /\ ReceiveNext
  /\ \E rq \in Requests :
       /\ rq.path = "/create"
       /\ LET m == getMerchantByPid(rq.pid)
              scheme == IF m # NULL /\ MerchantTable[m].has_rsa THEN "RSA" ELSE "MD5"
              signValid == IF scheme = "RSA" THEN rq.sign = "rsa" ELSE rq.sign = "md5"
          IN IF rq.type = "" \/ rq.timestamp = NULL
             THEN Reject(rq, "create", "missing_params", "")
             ELSE IF ~validateTimestamp(rq.timestamp)
             THEN Reject(rq, "create", "timestamp_expired", "")
             ELSE IF buildCertInfoError(rq) THEN Reject(rq, "create", "cert_invalid", "")
             ELSE IF m = NULL THEN Reject(rq, "create", "merchant_invalid", "")
             ELSE IF ~validateCallbackDomain(rq)
             THEN Reject(rq, "create", "domain_denied", "")
             ELSE IF ~signValid THEN Reject(rq, "create", "sign_invalid", scheme)
             ELSE IF rq.channel_id # NULL
             THEN \* the row of SELECT pc.* has no min_amount / max_amount
                  IF ChannelByIdActive(rq.channel_id) = NULL
                  THEN Reject(rq, "create", "no_channel", scheme)
                  ELSE createOrder(rq, "create", scheme, m, rq.channel_id,
                                   getMerchantFeeRate(MerchantTable[m], rq.type, PayGroupTable))
             ELSE CheckChannelAndCreate(rq, "create", scheme, m, getChannel(rq.type),
                                        getMerchantFeeRate(MerchantTable[m], rq.type, PayGroupTable))
  /\ UNCHANGED <<balance, inflight, now>>

\* router.all('/v2/query', ...)
V2Query ==
  /\ ReceiveNext
  /\ \E rq \in Requests :
       /\ rq.path = "/v2/query"
       /\ LET m == getMerchant(rq.pid)
              scheme == IF m # NULL /\ MerchantTable[m].has_rsa THEN "RSA" ELSE "MD5"
              signValid == IF scheme = "RSA" THEN rq.sign = "rsa" ELSE rq.sign = "md5"
          IN IF rq.timestamp = NULL THEN Reject(rq, "query_v2", "missing_params", "")
             ELSE IF ~validateTimestamp(rq.timestamp)
             THEN Reject(rq, "query_v2", "timestamp_expired", "")
             ELSE IF m = NULL THEN Reject(rq, "query_v2", "merchant_invalid", "")
             ELSE IF ~signValid THEN Reject(rq, "query_v2", "sign_invalid", scheme)
             ELSE QueryOrder(rq, "query_v2", scheme, m, StatusMapByName)
  /\ UNCHANGED <<balance, inflight, now>>

\* sign_type || (isV2 ? 'RSA' : 'MD5')
effectiveSignType(rq) ==
  IF rq.sign_type # "" THEN rq.sign_type
  ELSE IF rq.timestamp # NULL THEN "RSA" ELSE "MD5"

\* handleSubmit, reached as /submit.php
HandleSubmit ==
  /\ ReceiveNext
  /\ \E rq \in Requests :
       /\ rq.path = "/submit.php"
       /\ LET m == getMerchantByPid(rq.pid)
              isV2 == rq.timestamp # NULL
              scheme == effectiveSignType(rq)
              signValid == IF scheme = "RSA" THEN rq.sign = "rsa" ELSE rq.sign = "md5"
          IN IF isV2 /\ ~validateTimestamp(rq.timestamp)
             THEN Reject(rq, "handleSubmit", "timestamp_expired", "")
             ELSE IF buildCertInfoError(rq) THEN Reject(rq, "handleSubmit", "cert_invalid", "")
             ELSE IF m = NULL THEN Reject(rq, "handleSubmit", "merchant_invalid", "")
             ELSE IF scheme = "RSA" /\ ~MerchantTable[m].has_rsa
             THEN Reject(rq, "handleSubmit", "no_rsa_key", "")
             ELSE IF ~signValid THEN Reject(rq, "handleSubmit", "sign_invalid", scheme)
             ELSE CheckChannelAndCreate(rq, "handleSubmit", scheme, m,
                    IF rq.type = "" THEN NULL
                    ELSE IF rq.channel_id # NULL THEN ChannelById(rq.channel_id)
                    ELSE getChannel(rq.type),
                    IF rq.type = "" THEN 0 ELSE getMerchantFeeRate(MerchantTable[m], rq.type, PayGroupTable))
  /\ UNCHANGED <<balance, inflight, now>>

\* handleMapi, reached as /mapi.php
HandleMapi ==
  /\ ReceiveNext
  /\ \E rq \in Requests :
       /\ rq.path = "/mapi.php"
       /\ LET m == getMerchantByPid(rq.pid)
              isV2 == rq.timestamp # NULL
              scheme == effectiveSignType(rq)
              signValid == IF scheme = "RSA" THEN rq.sign = "rsa" ELSE rq.sign = "md5"
          IN IF isV2 /\ ~validateTimestamp(rq.timestamp)
             THEN Reject(rq, "handleMapi", "timestamp_expired", "")
             ELSE IF buildCertInfoError(rq) THEN Reject(rq, "handleMapi", "cert_invalid", "")
             ELSE IF m = NULL THEN Reject(rq, "handleMapi", "merchant_invalid", "")
             ELSE IF scheme = "RSA" /\ ~MerchantTable[m].has_rsa
             THEN Reject(rq, "handleMapi", "no_rsa_key", "")
             ELSE IF ~signValid THEN Reject(rq, "handleMapi", "sign_invalid", scheme)
             ELSE CheckChannelAndCreate(rq, "handleMapi", scheme, m,
                    IF rq.type = "" THEN NULL
                    ELSE IF rq.channel_id # NULL THEN ChannelById(rq.channel_id)
                    ELSE getChannel(rq.type),
                    IF rq.type = "" THEN 0 ELSE getMerchantFeeRate(MerchantTable[m], rq.type, PayGroupTable))
  /\ UNCHANGED <<balance, inflight, now>>

\* handleQuery, reached as /api.php?act=order
HandleQuery ==
  /\ ReceiveNext
  /\ \E rq \in Requests :
       /\ rq.path = "/api.php"
       /\ LET m == getMerchantByPid(rq.pid)
              isV2 == rq.timestamp # NULL
              scheme == effectiveSignType(rq)
              signValid == IF scheme = "RSA" THEN rq.sign = "rsa" ELSE rq.sign = "md5"
          IN IF isV2 /\ ~validateTimestamp(rq.timestamp)
             THEN Reject(rq, "handleQuery", "timestamp_expired", "")
             ELSE IF m = NULL THEN Reject(rq, "handleQuery", "merchant_invalid", "")
             ELSE IF scheme = "RSA" /\ ~MerchantTable[m].has_rsa
             THEN Reject(rq, "handleQuery", "no_rsa_key", "")
             ELSE IF ~signValid THEN Reject(rq, "handleQuery", "sign_invalid", scheme)
             ELSE QueryOrder(rq, "handleQuery", scheme, m, StatusMapByNumber)
  /\ UNCHANGED <<balance, inflight, now>>

\* ------------------------------------------------------------- specification
Init ==
  /\ orders = <<>>
  /\ balance = [m \in MerchantIds |-> 0]
  /\ ledger = <<>>
  /\ inflight = EmptyBag
  /\ resp = NoResp
  /\ now = 1
  /\ started = 0

Next ==
  \/ SubmitBegin
  \/ \E h \in Handlers : CreateOrderUpdate(h)
  \/ \E h \in Handlers : CreateOrderInsert(h)
  \/ SelectChannelBegin
  \/ \E h \in Handlers : SelectChannelUpdate(h)
  \/ DoPayBegin
  \/ \E h \in Handlers : DoPayLock(h)
  \/ \E h \in Handlers : DoPayPlugin(h)
  \/ NotifyBegin
  \/ ReturnBegin
  \/ \E h \in Handlers : NotifyUpdatePaid(h)
  \/ \E h \in Handlers : ReturnUpdatePaid(h)
  \/ \E h \in Handlers : SettleBegin(h)
  \/ \E h \in Handlers : TxSelectForUpdate(h)
  \/ \E h \in Handlers : TxUpdateBalance(h)
  \/ \E h \in Handlers : TxUpdateFlag(h)
  \/ \E h \in Handlers : TxCommit(h)
  \/ \E h \in Handlers : TxRollback(h)
  \/ \E h \in Handlers : SendNotify(h)

Spec == Init /\ [][Next]_vars

\* the submission and query endpoints, one request at a time
NextAuth ==
  \/ SubmitLegacy
  \/ MapiLegacy
  \/ QueryLegacy
  \/ Create
  \/ V2Query
  \/ HandleSubmit
  \/ HandleMapi
  \/ HandleQuery

\* the orders tables the endpoints are exercised on: empty, and holding the
\* order that a /submit of merchant 1 creates, pending, paid or closed
AuthTables ==
  LET pending == NewOrderRow([NewHandler EXCEPT !.kind = "submit_v1", !.mid = 1, !.chan = 1,
                                                !.ptype = "alipay", !.money = 10000,
                                                !.fee = 300, !.outno = 1, !.tno = 1])
  IN {<<>>,
      <<pending>>,
      <<[pending EXCEPT !.status = 1, !.paid_at = 1, !.api_trade_no = 1]>>,
      <<[pending EXCEPT !.status = 2]>>}

InitAuth ==
  /\ orders \in AuthTables
  /\ ledger = [i \in 1..Len(orders) |-> 0]
  /\ balance = [m \in MerchantIds |-> 0]
  /\ inflight = EmptyBag
  /\ resp = NoResp
  /\ now = 1
  /\ started = 0

SpecAuth == InitAuth /\ [][NextAuth]_vars

\* ------------------------------------------------------------- properties
\* C1: exactly-once settlement.  Whatever the number of verified notify and
\* return deliveries for an order and however their steps interleave, the
\* paid-status write is performed once, on the pending row, and the
\* merchant's balance is raised for the order once, by money - fee_money.
C1_ExactlyOnceSettlement ==
  [][/\ \A h \in Handlers :
          (NotifyUpdatePaid(h) \/ ReturnUpdatePaid(h)) => orders[h.oid].status = 0
     /\ \A id \in OrderIds :
          ledger'[id] # ledger[id] =>
            /\ ledger[id] = 0
            /\ ledger'[id] = orders'[id].money - orders'[id].fee_money]_vars

\* C2: the paid-status write is guarded by WHERE status = 0.  Once a row is
\* paid, no later write of a racing callback changes its paid_at, its
\* upstream trade number or its buyer.
C2_PaidWriteGuarded ==
  [][\A id \in OrderIds :
       orders[id].status = 1 =>
         /\ orders'[id].paid_at = orders[id].paid_at
         /\ orders'[id].api_trade_no = orders[id].api_trade_no
         /\ orders'[id].buyer = orders[id].buyer]_vars

\* C3: the credit is guarded independently of the status.  A verified
\* delivery that finds the order paid with balance_added unset, while no
\* other handler is working on it, does not end without the credit.
C3_RedeliveryCredits ==
  ~(/\ resp.kind \in {"notify", "return"}
    /\ resp.note = "paid_uncredited"
    /\ inflight = EmptyBag
    /\ orders[resp.oid].money - orders[resp.oid].fee_money > 0
    /\ ~orders[resp.oid].balance_added)

RECURSIVE SumLedger(_)
SumLedger(ids) ==
  IF ids = {} THEN 0
  ELSE LET id == CHOOSE i \in ids : TRUE IN ledger[id] + SumLedger(ids \ {id})

\* C4: the credit and the balance_added flag change together.  In every
\* state the balance has been raised for an order exactly if the order's
\* balance_added is set, and a merchant's balance is the sum of what was
\* raised for its orders; a transaction that fails part-way leaves neither.
C4_CreditAtomic ==
  /\ \A id \in OrderIds : (ledger[id] > 0) <=> orders[id].balance_added
  /\ \A m \in MerchantIds :
       balance[m] = SumLedger({id \in OrderIds : orders[id].merchant_id = m})

\* C4 witness: a credit transaction has failed after its balance update,
\* and the order stands paid, unflagged and uncredited
C4_Witness ==
  /\ resp.note = "rolled_back_partway"
  /\ orders[resp.oid].status = 1
  /\ ~orders[resp.oid].balance_added
  /\ ledger[resp.oid] = 0
  /\ balance[orders[resp.oid].merchant_id] = 0

\* C5: for every (merchant_id, out_trade_no) at most one row is pending
C5_OnePendingPerPair ==
  \A i \in OrderIds, j \in OrderIds :
    (/\ orders[i].merchant_id = orders[j].merchant_id
     /\ orders[i].out_trade_no = orders[j].out_trade_no
     /\ orders[i].status = 0
     /\ orders[j].status = 0) => i = j

\* C6: idempotent creation.  A submission whose lookup found the pending
\* row of an earlier equivalent submission ends without inserting a row,
\* answering with that row's trade_no.
C6_IdempotentCreation ==
  [][\A h \in Handlers :
       (h.pc = "co_update" /\ CopiesIn(h, inflight') < CopiesIn(h, inflight)) =>
         /\ Len(orders') = Len(orders)
         /\ resp'.code = "reused"
         /\ resp'.oid = h.oid
         /\ resp'.tno = orders[h.oid].trade_no]_vars

\* C6 witness: two submissions answered, the second with the trade_no of
\* the single row
C6_Witness ==
  /\ started = 2
  /\ inflight = EmptyBag
  /\ Len(orders) = 1
  /\ resp.kind = "submit"
  /\ resp.code = "reused"
  /\ resp.tno = orders[1].trade_no

\* C7: the channel lock is immutable.  Once dopay has written the lock of
\* an order, no step changes the order's channel_id.
C7_ChannelLockImmutable ==
  [][\A id \in OrderIds :
       orders[id].plugin_name # NULL => orders'[id].channel_id = orders[id].channel_id]_vars

\* C8: state-transition guard.  On an order whose status is not 0 no step
\* writes the channel, the pay type, the fee fields, the status or the
\* payment fields.
C8_StatusGuard ==
  [][\A id \in OrderIds :
       orders[id].status # 0 =>
         /\ orders'[id].channel_id = orders[id].channel_id
         /\ orders'[id].pay_type = orders[id].pay_type
         /\ orders'[id].plugin_name = orders[id].plugin_name
         /\ orders'[id].fee_money = orders[id].fee_money
         /\ orders'[id].real_money = orders[id].real_money
         /\ orders'[id].fee_payer = orders[id].fee_payer
         /\ orders'[id].status = orders[id].status
         /\ orders'[id].paid_at = orders[id].paid_at
         /\ orders'[id].api_trade_no = orders[id].api_trade_no
         /\ orders'[id].buyer = orders[id].buyer]_vars

\* C9: replay window.  On every submission and query endpoint a request
\* whose timestamp is not a number or lies more than 300 seconds from the
\* server's clock is rejected (as expired, unless a parameter is missing)
\* and no order is created or modified.
C9_ReplayWindow ==
  [][(/\ started' # started
      /\ resp'.req.timestamp # NULL
      /\ \/ resp'.req.timestamp = NaNTs
         \/ resp'.req.timestamp < ServerNow - ReplayWindow
         \/ resp'.req.timestamp > ServerNow + ReplayWindow) =>
       /\ resp'.code \in {"timestamp_expired", "missing_params"}
       /\ orders' = orders]_vars

\* C10: no silent fallback from RSA.  On a new-protocol endpoint a request
\* that is to be verified with RSA (sign_type RSA, or no sign_type and a
\* timestamp), from a merchant with no RSA public key, is never verified
\* with MD5 and never accepted.
C10_NoFallbackFromRSA ==
  (/\ resp.req.path \in {"/create", "/v2/query", "/submit.php", "/mapi.php", "/api.php"}
   /\ resp.req.timestamp # NULL
   /\ resp.req.sign_type \in {"", "RSA"}
   /\ resp.code \notin {"missing_params", "timestamp_expired", "merchant_invalid"}
   /\ ~MerchantTable[resp.req.pid].has_rsa) =>
     /\ resp.note # "MD5"
     /\ resp.code \notin {"ok", "order_not_found"}

\* C11: signature-scheme selection.  On every submission and query
\* endpoint the scheme a request is verified with is its sign_type when it
\* gives one, otherwise RSA when it carries a timestamp and MD5 when not.
C11_SchemeSelection ==
  resp.note \in {"MD5", "RSA"} =>
    resp.note = IF resp.req.sign_type # "" THEN resp.req.sign_type
                ELSE IF resp.req.timestamp # NULL THEN "RSA" ELSE "MD5"

\* C12: validation and resolution errors mutate nothing.  Whenever a
\* submission endpoint rejects a request, the orders table is after the
\* request what it was before.
C12_RejectionsMutateNothing ==
  [][(/\ started' # started
      /\ resp'.kind \in {"submit_v1", "mapi_v1", "create", "handleSubmit", "handleMapi"}
      /\ resp'.code # "ok") => orders' = orders]_vars

\* C12 witness: a submission was rejected for its callback domain while an
\* order of the same merchant and out_trade_no is pending, and the order
\* stands as it was
C12_Witness ==
  /\ resp.code = "domain_denied"
  /\ Len(orders) = 1
  /\ orders \in AuthTables
  /\ orders[1].merchant_id = resp.req.pid
  /\ orders[1].out_trade_no = resp.req.out_trade_no

\* C13: amount bounds.  On every submission endpoint, a request that is
\* accepted with a channel attached to its order has money within the
\* bounds of that channel (a bound of 0 is no bound).
C13_AmountBounds ==
  [][(/\ started' # started
      /\ resp'.kind \in {"submit_v1", "mapi_v1", "create", "handleSubmit", "handleMapi"}
      /\ resp'.code = "ok"
      /\ orders'[resp'.oid].channel_id # NULL) =>
       LET c == ChannelTable[orders'[resp'.oid].channel_id]
       IN /\ c.min_amount = 0 \/ resp'.req.money >= c.min_amount
          /\ c.max_amount = 0 \/ resp'.req.money <= c.max_amount]_vars

\* C14: only active or approved merchants transact.  A submission or query
\* request whose pid is of a merchant of any other status is rejected, and
\* the orders table is left as it was.
C14_MerchantStatus ==
  [][(/\ started' # started
      /\ resp'.req.path \in Paths
      /\ MerchantTable[resp'.req.pid].status \notin {"active", "approved"}) =>
       /\ resp'.code \notin {"ok", "order_not_found"}
       /\ orders' = orders]_vars

\* C14 witness: a correctly signed request of the paused merchant was
\* rejected for the merchant's status
C14_Witness ==
  /\ resp.req.path \in Paths
  /\ MerchantTable[resp.req.pid].status = "paused"
  /\ resp.req.sign \in {"md5", "rsa"}
  /\ resp.code = "merchant_invalid"

\* ------------------------------------------------------------- fee resolution
\* getMerchantFeeRate and normalizeRateToDecimal exercised on their own:
\* the merchant's fee configuration, the pay groups and the pay type are
\* drawn from the sets below, resp holds the argument and then the result.

\* raw stored rates, scaled by 10000: NaN, -6, 0, 0.06, 6, 100
RawRates == {NaNRate, -60000, 0, 600, 60000, 1000000}
\* raw rates of a pay group's config: null, 6, 150, -6
GroupRates == {NullRate, 60000, 1500000, -60000}
FeePayTypes == {"alipay", "wxpay", "bogus"}
\* number of times normalizeRateToDecimal is applied in a row
MaxNormalize == 2

FeeMerchants ==
  [merchant_fee_rates : [{"alipay", "wxpay"} -> {NullRate, 60000}]
                          \cup {[alipay |-> r, wxpay |-> NullRate] : r \in RawRates},
   merchant_fee_rate : RawRates \cup {NullRate},
   pay_group_id : {NULL, 1, 2, 3}]

FeeGroupRows ==
  [is_default : {0, 1},
   config : {<<>>} \cup {(1 :> [rate |-> r, channel_mode |-> -1, group_id |-> NULL]) : r \in GroupRates}]

\* provider_pay_groups with ids among 1, 2 and at most one default group
FeePayGroupTables ==
  {<<>>}
    \cup {(1 :> a) : a \in FeeGroupRows}
    \cup {(2 :> b) : b \in FeeGroupRows}
    \cup {(1 :> a) @@ (2 :> b) : a \in {x \in FeeGroupRows : x.is_default = 0}, b \in FeeGroupRows}
    \cup {(1 :> a) @@ (2 :> b) : a \in FeeGroupRows, b \in {x \in FeeGroupRows : x.is_default = 0}}

InitFee ==
  /\ orders = <<>>
  /\ balance = [m \in MerchantIds |-> 0]
  /\ ledger = <<>>
  /\ inflight = EmptyBag
  /\ now = 1
  /\ started = 0
  /\ \/ \E m \in FeeMerchants, t \in FeePayTypes, g \in FeePayGroupTables :
          resp = [kind |-> "fee_call", merchant |-> m, payType |-> t, groups |-> g, rate |-> NULL]
     \/ \E r \in RawRates : resp = [kind |-> "raw", raw |-> r, rate |-> r]

\* const feeRate = await getMerchantFeeRate(merchant, payType)
ResolveFeeRate ==
  /\ resp.kind = "fee_call"
  /\ resp' = [resp EXCEPT !.kind = "fee",
                          !.rate = getMerchantFeeRate(resp.merchant, resp.payType, resp.groups)]
  /\ UNCHANGED <<orders, balance, ledger, inflight, now, started>>

\* rate = normalizeRateToDecimal(rate)
NormalizeRate ==
  /\ resp.kind \in {"raw", "normalized"}
  /\ started < MaxNormalize
  /\ started' = started + 1
  /\ resp' = [resp EXCEPT !.kind = "normalized", !.rate = normalizeRateToDecimal(resp.rate)]
  /\ UNCHANGED <<orders, balance, ledger, inflight, now>>

\* /dopay's fee fields for the channel lock of an order of the merchant:
\* the merchant row it selects, getMerchantFeeRate on it, feeMoney, realMoney
DoPayFee ==
  /\ resp.kind = "fee_call"
  /\ \E money \in Moneys, feePayer \in {"merchant", "buyer"} :
       LET feeRate == getMerchantFeeRate(DoPayMerchant(resp.merchant), resp.payType, resp.groups)
           feeMoney == FeeMoney(money, feeRate)
       IN resp' = [kind |-> "lock_fee", merchant |-> resp.merchant, payType |-> resp.payType,
                   groups |-> resp.groups, money |-> money, fee_payer |-> feePayer,
                   rate |-> feeRate, fee_money |-> feeMoney,
                   real_money |-> RealMoney(money, feeMoney, feePayer)]
  /\ UNCHANGED <<orders, balance, ledger, inflight, now, started>>

NextFee == ResolveFeeRate \/ NormalizeRate \/ DoPayFee

SpecFee == InitFee /\ [][NextFee]_vars

\* C15: fee priority cascade, first match wins.  The rate resolved for a
\* merchant and a pay type is the normalized rate of the merchant's rate map
\* when the map holds the pay type; otherwise the normalized uniform rate
\* when it is set; otherwise the rate that the pay group (the merchant's
\* configured group, else the default group, else the group with the lowest
\* id) holds for the pay type's numeric id, divided by 100; otherwise 0.
C15_FeeCascade ==
  resp.kind = "fee" =>
    LET m == resp.merchant
        t == resp.payType
        g == resp.groups
        inMap == t \in DOMAIN m.merchant_fee_rates /\ m.merchant_fee_rates[t] # NullRate
        uniform == m.merchant_fee_rate # NullRate
        IsGroup(k) ==
          /\ k \in DOMAIN g
          /\ \/ k = m.pay_group_id
             \/ /\ m.pay_group_id \notin DOMAIN g
                /\ g[k].is_default = 1
             \/ /\ m.pay_group_id \notin DOMAIN g
                /\ \A j \in DOMAIN g : g[j].is_default # 1 /\ k <= j
        HasRate(k) ==
          /\ getPayTypeByName(t) # NULL
          /\ getPayTypeByName(t) \in DOMAIN g[k].config
          /\ g[k].config[getPayTypeByName(t)].rate # NullRate
    IN IF inMap THEN resp.rate = normalizeRateToDecimal(m.merchant_fee_rates[t])
       ELSE IF uniform THEN resp.rate = normalizeRateToDecimal(m.merchant_fee_rate)
       ELSE IF \E k \in DOMAIN g : IsGroup(k) /\ HasRate(k)
         THEN \E k \in DOMAIN g :
                IsGroup(k) /\ HasRate(k)
                  /\ resp.rate * 100 = g[k].config[getPayTypeByName(t)].rate
       ELSE resp.rate = 0

\* the rate came from the lowest-id group: the map lacks the pay type, no
\* uniform rate, the configured group does not exist, no group is default
C15_Witness ==
  /\ resp.kind = "fee"
  /\ resp.payType = "alipay"
  /\ resp.merchant.merchant_fee_rates["alipay"] = NullRate
  /\ resp.merchant.merchant_fee_rates["wxpay"] # NullRate
  /\ resp.merchant.merchant_fee_rate = NullRate
  /\ resp.merchant.pay_group_id = 3
  /\ DOMAIN resp.groups = {1, 2}
  /\ \A k \in DOMAIN resp.groups : resp.groups[k].is_default = 0
  /\ resp.groups[1].config # <<>>
  /\ resp.groups[2].config # <<>>
  /\ resp.groups[1].config[1].rate = 60000
  /\ resp.groups[2].config[1].rate = 1500000
  /\ resp.rate = 600

\* C16: whatever raw values are stored in the merchant's rate map, the
\* uniform rate or the pay group's rate (values of 100 or more and negative
\* values included), the resolved rate r is a decimal with 0 <= r < 1.
C16_RateInUnitInterval ==
  resp.kind = "fee" => 0 <= resp.rate /\ resp.rate < 10000

\* C17: normalization is idempotent, normalize(normalize(r)) = normalize(r)
\* for every raw rate r, and normalize(6) = 0.06 = normalize(0.06).
C17_NormalizeIdempotent ==
  [][/\ (resp.kind = "normalized" /\ resp'.kind = "normalized") => resp'.rate = resp.rate
     /\ (resp.kind = "raw" /\ resp.raw \in {60000, 600} /\ resp'.kind = "normalized")
          => resp'.rate = 600]_vars

\* C18: fee computation.  The row that createOrder writes, inserted or
\* reused, has fee_money = round2(money * rate) for the rate resolved for
\* the merchant and the pay type, and real_money = money + fee_money when
\* fee_payer is buyer, real_money = money otherwise.
C18_FeeComputation ==
  [][(/\ started' # started
      /\ resp'.kind \in {"submit_v1", "mapi_v1", "create", "handleSubmit", "handleMapi"}
      /\ resp'.code = "ok")
       => LET row == orders'[resp'.oid]
              rate == IF row.pay_type = "" THEN 0
                      ELSE getMerchantFeeRate(MerchantTable[row.merchant_id], row.pay_type,
                                              PayGroupTable)
          IN /\ row.fee_money = FeeMoney(row.money, rate)
             /\ row.real_money = RealMoney(row.money, row.fee_money, row.fee_payer)]_vars

\* ------------------------------------------------------------- channel selection
\* selectChannelFromGroup exercised on its own, as /dopay calls it for an
\* order without a channel: the tables and the arguments are drawn from the
\* sets below, resp holds them and then the outcome.

\* force_min_age of a channel
ForceAges == {NoAge, NaNAge, 18}
\* minAge of the call: none, not a number, 16, 18
MinAges == {NoAge, NaNAge, 16, 18}
SelectPayTypes == {"alipay", "bogus"}
SelectGroupIds == {NULL, 1, 2}

\* provider_channels: 1 and 2 serve alipay, 3 serves wxpay; 2 may be disabled
SelectChannelRow(type, st, age) ==
  [status |-> st, priority |-> 1, pay_type |-> {type}, min_amount |-> 0, max_amount |-> 0,
   plugin_name |-> 1, force_min_age |-> age]

SelectChannelTables ==
  {(1 :> SelectChannelRow("alipay", 1, a)) @@ (2 :> SelectChannelRow("alipay", st, b))
     @@ (3 :> SelectChannelRow("wxpay", 1, c)) :
     a \in ForceAges, b \in ForceAges, c \in {NoAge, 18}, st \in {0, 1}}

\* channel_mode values: disabled, random, polling group, round robin, first
\* available, the channel with id 2, the channel with id 3 (which serves
\* another pay type)
ChannelModes == {0, -1, -3, -4, -5, 2, 3}

SelectTypeConfigs ==
  [rate : {60000}, channel_mode : ChannelModes, group_id : {NULL, 1}]

\* provider_pay_groups: none; one default group, with or without an entry
\* for alipay; a default group and a second group
SelectPayGroupTables ==
  {<<>>, (1 :> [is_default |-> 1, config |-> <<>>])}
    \cup {(1 :> [is_default |-> 1, config |-> (1 :> tc)]) : tc \in SelectTypeConfigs}
    \cup {(1 :> [is_default |-> 1, config |-> (1 :> [rate |-> 60000, channel_mode |-> a, group_id |-> NULL])])
            @@ (2 :> [is_default |-> 0, config |-> (1 :> [rate |-> 60000, channel_mode |-> b, group_id |-> NULL])]) :
          a \in {0, -1}, b \in {0, -5}}

\* a member {id, weight} of channel_groups.channels
Member(c, w) == [id |-> c, weight |-> w]

\* the lists of members: none; channel 3 alone; 2 then 3; 3 then 1; in the
\* lists of two either member may have the weight 2 or none
SelectMemberLists ==
  {<<>>, <<Member(3, NoWeight)>>}
    \cup {<<Member(2, v), Member(3, w)>> : v \in {NoWeight, 2}, w \in {NoWeight, 2}}
    \cup {<<Member(3, v), Member(1, w)>> : v \in {NoWeight, 2}, w \in {NoWeight, 2}}

\* channel_groups: none; polling group 1 in each mode over the lists of
\* members; polling group 1 disabled
SelectChannelGroupTables ==
  {<<>>, (1 :> [status |-> 0, mode |-> 0, channels |-> <<Member(2, NoWeight), Member(3, NoWeight)>>])}
    \cup {(1 :> [status |-> 1, mode |-> gm, channels |-> cs]) :
            gm \in {0, 1, 2}, cs \in SelectMemberLists}

InitSelect ==
  /\ orders = <<>>
  /\ balance = [m \in MerchantIds |-> 0]
  /\ ledger = <<>>
  /\ inflight = EmptyBag
  /\ now = 1
  /\ started = 0
  /\ \E t \in SelectPayTypes, g \in SelectGroupIds, a \in MinAges,
        pg \in SelectPayGroupTables, cg \in SelectChannelGroupTables,
        ch \in SelectChannelTables :
       resp = [kind |-> "select_call", payType |-> t, payGroupId |-> g, minAge |-> a,
               payGroups |-> pg, channelGroups |-> cg, channels |-> ch, channel |-> NULL,
               via |-> "", draw |-> 0]

\* channelConfig = await selectChannelFromGroup(finalPayType, group_id,
\*   { minAge }); if (!channelConfig) return the error
SelectChannel ==
  /\ resp.kind = "select_call"
  /\ LET cs == selectChannelFromGroup(resp.payType, resp.payGroupId, resp.minAge,
                                      resp.payGroups, resp.channelGroups, resp.channels)
     IN IF cs = {} THEN resp' = [resp EXCEPT !.kind = "no_channel"]
        ELSE \E out \in cs : resp' = [resp EXCEPT !.kind = "selected", !.channel = out.channel,
                                                   !.via = out.via, !.draw = out.draw]
  /\ UNCHANGED <<orders, balance, ledger, inflight, now, started>>

NextSelect == SelectChannel

SpecSelect == InitSelect /\ [][NextSelect]_vars

\* C19: eligibility filtering.  For a call with a merchant-requested minimum
\* age m, the returned channel has no force_min_age or a force_min_age <= m,
\* whether it was resolved through a polling group or directly.
\* A channel of the pay type that passes the filter is eligible: the call
\* comes back empty-handed only when no enabled channel of the type passes
\* or the pay type is disabled in the pay group.
C19_EligibilityFilter ==
  /\ (resp.kind = "selected" /\ resp.minAge \notin {NoAge, NaNAge}) =>
       LET age == resp.channels[resp.channel].force_min_age
       IN age = NoAge \/ (age # NaNAge /\ age <= resp.minAge)
  /\ (resp.kind = "no_channel" /\ resp.minAge \notin {NoAge, NaNAge}) =>
       \/ \A c \in DOMAIN resp.channels :
            (resp.payType \in resp.channels[c].pay_type /\ resp.channels[c].status = 1)
              => /\ resp.channels[c].force_min_age # NoAge
                 /\ \/ resp.channels[c].force_min_age = NaNAge
                    \/ resp.channels[c].force_min_age > resp.minAge
       \/ \E k \in DOMAIN resp.payGroups :
            /\ 1 \in DOMAIN resp.payGroups[k].config
            /\ resp.payGroups[k].config[1].channel_mode = 0

\* resolved through the polling group (channel 3 serves wxpay, the call asks
\* for alipay): channel 2 with force_min_age 18 is in the group and m = 16
C19_Witness ==
  /\ resp.kind = "selected"
  /\ resp.payType = "alipay"
  /\ resp.minAge = 16
  /\ resp.channel = 3
  /\ resp.channels[3].force_min_age = NoAge
  /\ resp.channels[2].status = 1
  /\ resp.channels[2].force_min_age = 18
  /\ resp.channelGroups # <<>>
  /\ resp.channelGroups[1].channels = <<Member(2, NoWeight), Member(3, NoWeight)>>
  /\ resp.channelGroups[1].mode = 2

\* C20: a pay type whose channel_mode is 0 in the resolved pay group is
\* disabled: the call returns no channel, whatever channels and polling
\* groups exist, and /dopay dispatches nothing.
C20_DisabledPayType ==
  LET k == ResolvePayGroup(resp.payGroups, resp.payGroupId)
      id == getPayTypeByName(resp.payType)
  IN (/\ resp.kind \in {"selected", "no_channel"}
      /\ k # NULL
      /\ id \in DOMAIN resp.payGroups[k].config
      /\ resp.payGroups[k].config[id].channel_mode = 0)
       => resp.kind = "no_channel" /\ resp.channel = NULL

\* the second group, asked for by id, disables alipay while the default
\* group does not, and an enabled alipay channel without age limit exists
C20_Witness ==
  /\ resp.kind = "no_channel"
  /\ resp.payType = "alipay"
  /\ resp.payGroupId = 2
  /\ DOMAIN resp.payGroups = {1, 2}
  /\ resp.payGroups[2].config[1].channel_mode = 0
  /\ resp.payGroups[1].config[1].channel_mode = -1
  /\ resp.channels[1].force_min_age = NoAge
  /\ resp.minAge = NoAge

\* ------------------------------------------------------------- channel health monitor
\* checkAndAutoCloseChannel exercised on its own.  Strings are sequences of
\* characters; the error message, the check_paymsg keyword list and the
\* check_paymsg_notice setting are drawn from the sets below.
MaxMsgLen == 2
MaxListLen == 4

RECURSIVE Strings(_, _)
Strings(alphabet, n) ==
  IF n = 0 THEN {<<>>}
  ELSE LET shorter == Strings(alphabet, n - 1)
       IN shorter \cup {Append(s, c) : s \in {x \in shorter : Len(x) = n - 1}, c \in alphabet}

ErrorMsgs == Strings({"a", "b"}, MaxMsgLen)
KeywordLists == Strings({"a", "b", " ", "|"}, MaxListLen)

\* checkPaymsg.split('|')
RECURSIVE Split(_)
Split(s) ==
  IF \A i \in 1..Len(s) : s[i] # "|" THEN <<s>>
  ELSE LET p == CHOOSE i \in 1..Len(s) : s[i] = "|" /\ \A j \in 1..(i - 1) : s[j] # "|"
       IN <<SubSeq(s, 1, p - 1)>> \o Split(SubSeq(s, p + 1, Len(s)))

\* a keyword compared as it is written in the list
NoTrim(s) == s

\* k.trim()
RECURSIVE Trim(_)
Trim(s) ==
  IF s # <<>> /\ Head(s) = " " THEN Trim(Tail(s))
  ELSE IF s # <<>> /\ s[Len(s)] = " " THEN Trim(SubSeq(s, 1, Len(s) - 1))
  ELSE s

\* errorMsg.includes(k)
Includes(msg, k) ==
  \E i \in 0..(Len(msg) - Len(k)) : SubSeq(msg, i + 1, i + Len(k)) = k

\* keywords.find(keyword => errorMsg.includes(keyword.trim())) over the
\* keywords whose trim is not empty: the matched keywords in list order
MatchedKeywords(errorMsg, checkPaymsg) ==
  SelectSeq(SelectSeq(Split(checkPaymsg), LAMBDA k : Trim(k) # <<>>),
            LAMBDA k : Includes(errorMsg, Trim(k)))

InitHealth ==
  /\ orders = <<>>
  /\ balance = [m \in MerchantIds |-> 0]
  /\ ledger = <<>>
  /\ inflight = EmptyBag
  /\ now = 1
  /\ started = 0
  /\ \E e \in ErrorMsgs, l \in KeywordLists, n \in {"0", "1"}, st \in {0, 1} :
       resp = [kind |-> "health_call", errorMsg |-> e, check_paymsg |-> l,
               check_paymsg_notice |-> n, before |-> st, status |-> st,
               notified |-> FALSE, matchedKeyword |-> <<>>]

\* await checkAndAutoCloseChannel(result.msg, channelConfig)
checkAndAutoCloseChannel ==
  /\ resp.kind = "health_call"
  /\ LET matched == MatchedKeywords(resp.errorMsg, resp.check_paymsg)
     IN IF resp.errorMsg = <<>> \/ resp.check_paymsg = <<>> \/ matched = <<>>
        THEN resp' = [resp EXCEPT !.kind = "health_done"]
        ELSE resp' = [resp EXCEPT !.kind = "health_done",
                                  !.status = 0,
                                  !.matchedKeyword = matched[1],
                                  !.notified = (resp.check_paymsg_notice = "1")]
  /\ UNCHANGED <<orders, balance, ledger, inflight, now, started>>

NextHealth == checkAndAutoCloseChannel

SpecHealth == InitHealth /\ [][NextHealth]_vars

\* C21: the channel's status is set to 0 if and only if the message contains
\* at least one non-blank keyword of the pipe-delimited list; with an empty
\* message, an empty list or no matching keyword the status is unchanged, and
\* the alert is emitted only when a keyword matched and alerting is enabled.
C21_HealthMonitor ==
  resp.kind = "health_done" =>
    LET l == resp.check_paymsg
        e == resp.errorMsg
        \* l[i..j] is a keyword: a non-blank stretch between two delimiters,
        \* the blanks around it left out
        Keyword(i, j) ==
          /\ i <= j
          /\ l[i] \notin {" ", "|"} /\ l[j] \notin {" ", "|"}
          /\ \A k \in i..j : l[k] # "|"
          /\ \A k \in 1..(i - 1) : (\A n \in k..(i - 1) : l[n] # "|") => l[k] = " "
          /\ \A k \in (j + 1)..Len(l) : (\A n \in (j + 1)..k : l[n] # "|") => l[k] = " "
        hit == \E i \in 1..Len(l), j \in 1..Len(l) :
                 /\ Keyword(i, j)
                 /\ \E p \in 1..Len(e) :
                      p + (j - i) <= Len(e) /\ \A k \in 0..(j - i) : e[p + k] = l[i + k]
    IN /\ hit => resp.status = 0
       /\ ~hit => resp.status = resp.before
       /\ resp.notified <=> (hit /\ resp.check_paymsg_notice = "1")

\* the keyword is written with blanks around it, after a blank entry, and
\* the channel was enabled
C21_Witness ==
  /\ resp.kind = "health_done"
  /\ resp.check_paymsg = <<" ", "|", " ", "b">>
  /\ resp.errorMsg = <<"a", "b">>
  /\ resp.before = 1
  /\ resp.status = 0
  /\ resp.check_paymsg_notice = "1"
  /\ resp.notified

\* ------------------------------------------------------------- callbacks, one at a time
\* /notify/:trade_no and /return/:trade_no run without interruption, from
\* the order lookup to the response, on every path: unknown trade_no, order
\* without channel, channel row or plugin missing, the plugin's verdict, and
\* an exception thrown by any awaited statement.  The response records the
\* callback it answers (req).
MaxCallbacks == 1

\* the statement of the handler that throws, if any
ThrowPoints ==
  {"none", "select_order", "select_channel", "plugin", "update_paid", "reread", "sdn"}

\* a callback: trade_no of the path (2 is the trade_no of no order),
\* whether the channel row and the plugin are found, the plugin's verdict,
\* whether the plugin defines getNotifyResponse, the statement that throws,
\* how the credit transaction ends and whether the merchant's notify_url
\* acknowledged the delivery.
\* Callbacks that vary the lookups, the verdict and the exception:
LookupCallbacks ==
  [kind : {"notify", "return"}, trade_no : {1, 2}, channelRow : BOOLEAN, plugin : BOOLEAN,
   success : BOOLEAN, msg : BOOLEAN, ack : {"default", "plugin"}, throws : ThrowPoints,
   tx : {"commit"}, delivered : {TRUE}]

\* Verified callbacks that vary the settlement and the delivery:
SettleCallbacks ==
  [kind : {"notify", "return"}, trade_no : {1}, channelRow : {TRUE}, plugin : {TRUE},
   success : {TRUE}, msg : {FALSE}, ack : {"default"}, throws : {"none", "sdn"},
   tx : {"commit", "rollback"}, delivered : BOOLEAN]

CallbackRequests == LookupCallbacks \cup SettleCallbacks

\* the order of merchant 1 as the submission, the channel lock, the paid
\* write and the settlement leave it; pending also with a fee equal to the
\* amount and with a fee above it (a fee rate of 1 and more)
CallbackOrders ==
  LET pending == NewOrderRow([NewHandler EXCEPT !.kind = "submit_v1", !.mid = 1, !.chan = 1,
                                                !.ptype = "alipay", !.money = 10000,
                                                !.fee = 300, !.outno = 1, !.tno = 1])
      paid == [pending EXCEPT !.status = 1, !.paid_at = 1, !.api_trade_no = 1]
  IN {[pending EXCEPT !.channel_id = NULL],
      pending,
      [pending EXCEPT !.fee_money = 10000],
      [pending EXCEPT !.fee_money = 20000],
      paid,
      [paid EXCEPT !.balance_added = TRUE, !.notify_status = 1, !.notify_count = 1],
      [paid EXCEPT !.balance_added = TRUE, !.notify_status = 2, !.notify_count = 1]}

InitCallback ==
  /\ \E o \in CallbackOrders :
       /\ orders = <<o>>
       /\ ledger = <<IF o.balance_added THEN o.money - o.fee_money ELSE 0>>
       /\ balance = [m \in MerchantIds |->
                       IF m = o.merchant_id /\ o.balance_added THEN o.money - o.fee_money ELSE 0]
  /\ inflight = EmptyBag
  /\ resp = NoResp
  /\ now = 1
  /\ started = 0

ReceiveCallback ==
  /\ inflight = EmptyBag
  /\ started < MaxCallbacks
  /\ started' = started + 1

\* a verdict that would pass whatever the plugin answers
VerifiedAlways(rq) == TRUE

\* notifyResult.success / returnResult.success
Verified(rq) == rq.success

\* a catch block that would send the exception's text
NotifyCatchRaw == "error_text"

\* catch (error) { res.send('fail') }
NotifyCatch == "fail"

\* plugin.getNotifyResponse(ok) when the plugin defines it, else
\* 'success' / 'fail'
NotifyAck(rq, ok) ==
  IF rq.ack = "plugin" THEN (IF ok THEN "plugin_ack_true" ELSE "plugin_ack_false")
  ELSE IF ok THEN "success" ELSE "fail"

\* a settlement that would apply whatever money - fee_money amounts to
SettleNoteUnguarded(row, rq) ==
  IF rq.throws = "sdn" THEN "not_sent"
  ELSE IF rq.tx = "commit" /\ ~row.balance_added THEN "credited"
  ELSE IF rq.tx = "rollback" THEN "rolled_back"
  ELSE "already_credited"

\* what sendDownstreamNotify(order) did
SettleNote(row, rq) ==
  IF rq.throws = "sdn" THEN "not_sent"
  ELSE IF row.money - row.fee_money <= 0 THEN "nothing_to_credit"
  ELSE IF rq.tx = "commit" /\ ~row.balance_added THEN "credited"
  ELSE IF rq.tx = "rollback" THEN "rolled_back"
  ELSE "already_credited"

\* sendDownstreamNotify(order) run without interruption on the orders table
\* ords: the credit transaction (committed or rolled back), then the
\* delivery and its bookkeeping; an exception of its first statement ends
\* it.  The tables <<orders, balance, ledger>> it leaves.
sendDownstreamNotify(ords, id, rq) ==
  LET o == ords[id]
      settleAmount == o.money - o.fee_money
      credit == SettleNote(o, rq) = "credited"
  IN IF rq.throws = "sdn" THEN <<ords, balance, ledger>>
     ELSE <<[ords EXCEPT ![id].balance_added = (@ \/ credit),
                         ![id].notify_status = IF rq.delivered THEN 1 ELSE 2,
                         ![id].notify_count = @ + 1],
            IF credit THEN [balance EXCEPT ![o.merchant_id] = @ + settleAmount] ELSE balance,
            IF credit THEN [ledger EXCEPT ![id] = @ + settleAmount] ELSE ledger>>

AnswerCallback(rq, code, oid, note) ==
  resp' = [kind |-> rq.kind, code |-> code, oid |-> oid, tno |-> NULL, note |-> note,
           req |-> rq, status |-> NoStatus]

\* a response without a write
CallbackOnly(rq, code, oid, note) ==
  /\ AnswerCallback(rq, code, oid, note)
  /\ UNCHANGED <<orders, balance, ledger, now>>

\* the paid write, the re-read and sendDownstreamNotify of a verified
\* callback that read the order as pending
CallbackSettle(rq, id, code, catch) ==
  IF rq.throws = "update_paid" THEN CallbackOnly(rq, catch, id, "exception")
  ELSE \E t \in Clock :
         LET h == [NewHandler EXCEPT !.api = 1, !.buyer = NULL]
             paid == [orders EXCEPT ![id] = PaidRow(@, h, t)]
             after == sendDownstreamNotify(paid, id, rq)
         IN /\ now' = t
            /\ IF rq.throws = "reread"
               THEN /\ orders' = paid
                    /\ UNCHANGED <<balance, ledger>>
                    /\ AnswerCallback(rq, catch, id, "exception")
               ELSE /\ orders' = after[1]
                    /\ balance' = after[2]
                    /\ ledger' = after[3]
                    /\ AnswerCallback(rq, code, id, SettleNote(paid[id], rq))

\* router.all('/notify/:trade_no', ...)
Notify ==
  /\ ReceiveCallback
  /\ \E rq \in CallbackRequests :
       /\ rq.kind = "notify"
       /\ LET ids == {i \in OrderIds : orders[i].trade_no = rq.trade_no}
              id == CHOOSE i \in ids : TRUE
          IN IF rq.throws = "select_order" THEN CallbackOnly(rq, NotifyCatch, NULL, "exception")
             ELSE IF ids = {} THEN CallbackOnly(rq, "fail", NULL, "not_found")
             ELSE IF orders[id].channel_id = NULL THEN CallbackOnly(rq, "fail", id, "no_channel")
             ELSE IF rq.throws = "select_channel"
               THEN CallbackOnly(rq, NotifyCatch, id, "exception")
             ELSE IF ~rq.channelRow THEN CallbackOnly(rq, "fail", id, "no_channel_row")
             ELSE IF ~rq.plugin THEN CallbackOnly(rq, "fail", id, "no_plugin")
             ELSE IF rq.throws = "plugin" THEN CallbackOnly(rq, NotifyCatch, id, "exception")
             ELSE IF ~Verified(rq) THEN CallbackOnly(rq, NotifyAck(rq, FALSE), id, "unverified")
             ELSE IF orders[id].status = 0
               THEN CallbackSettle(rq, id, NotifyAck(rq, TRUE), NotifyCatch)
             ELSE CallbackOnly(rq, NotifyAck(rq, TRUE), id, Standing(orders[id]))
  /\ UNCHANGED inflight

\* router.all('/return/:trade_no', ...)
Return ==
  /\ ReceiveCallback
  /\ \E rq \in CallbackRequests :
       /\ rq.kind = "return"
       /\ LET ids == {i \in OrderIds : orders[i].trade_no = rq.trade_no}
              id == CHOOSE i \in ids : TRUE
          IN IF rq.throws = "select_order" THEN CallbackOnly(rq, "error", NULL, "exception")
             ELSE IF ids = {} THEN CallbackOnly(rq, "error", NULL, "not_found")
             ELSE IF orders[id].channel_id = NULL
               THEN CallbackOnly(rq, "redirect", id, "no_channel")
             ELSE IF rq.throws = "select_channel"
               THEN CallbackOnly(rq, "error", id, "exception")
             ELSE IF ~rq.channelRow THEN CallbackOnly(rq, "redirect", id, "no_channel_row")
             ELSE IF ~rq.plugin THEN CallbackOnly(rq, "redirect", id, "no_plugin")
             ELSE IF rq.throws = "plugin" THEN CallbackOnly(rq, "error", id, "exception")
             ELSE IF ~Verified(rq)
               THEN CallbackOnly(rq, IF rq.msg THEN "error" ELSE "redirect", id, "unverified")
             ELSE IF orders[id].status = 0
               THEN CallbackSettle(rq, id, "redirect", "error")
             ELSE CallbackOnly(rq, "redirect", id, Standing(orders[id]))
  /\ UNCHANGED inflight

NextCallback == Notify \/ Return

SpecCallback == InitCallback /\ [][NextCallback]_vars

\* C22: the notify endpoint answers every request, exceptions included, with
\* the acknowledgement only (the plugin's getNotifyResponse value or the
\* default 'success' / 'fail'), never with error text, and it acknowledges
\* success only when the plugin verified the callback.
C22_NotifyAcknowledgement ==
  resp.kind = "notify" =>
    /\ resp.code \in {"success", "fail", "plugin_ack_true", "plugin_ack_false"}
    /\ resp.code \in {"plugin_ack_true", "plugin_ack_false"} => resp.req.ack = "plugin"
    /\ resp.code \in {"success", "plugin_ack_true"} =>
         /\ resp.req.success
         /\ resp.req.trade_no \in {orders[i].trade_no : i \in OrderIds}
         /\ resp.req.channelRow /\ resp.req.plugin
         /\ resp.req.throws \notin {"select_order", "select_channel", "plugin"}

\* an exception after the plugin verified the callback: the UPDATE throws
C22_Witness ==
  /\ resp.kind = "notify"
  /\ resp.req.success
  /\ resp.req.throws = "update_paid"
  /\ resp.note = "exception"
  /\ resp.code = "fail"
  /\ orders[1].status = 0

\* C23: a callback that is not verified mutates no state.  When the order
\* cannot be found, the order has no channel, the channel row or its plugin
\* cannot be found, or the plugin's verification fails, notify and return
\* leave the orders (status, paid_at, balance_added, notify bookkeeping) and
\* the merchants' balances as they were, and notify answers with the failure
\* acknowledgement.
C23_UnverifiedMutatesNothing ==
  [][(/\ started' # started
      /\ resp'.kind \in {"notify", "return"}
      /\ LET rq == resp'.req
             ids == {i \in OrderIds : orders[i].trade_no = rq.trade_no}
         IN \/ ids = {}
            \/ \E i \in ids : orders[i].channel_id = NULL
            \/ ~rq.channelRow
            \/ ~rq.plugin
            \/ ~rq.success)
       => /\ orders' = orders
          /\ balance' = balance
          /\ ledger' = ledger
          /\ resp'.kind = "notify" => resp'.code \in {"fail", "plugin_ack_false"}]_vars

\* the plugin rejects a callback for a pending order with a locked channel
C23_Witness ==
  /\ resp.kind \in {"notify", "return"}
  /\ resp.note = "unverified"
  /\ ~resp.req.success
  /\ resp.req.throws = "none"
  /\ orders[1].status = 0
  /\ orders[1].channel_id = 1
  /\ orders[1].paid_at = NULL
  /\ balance[1] = 0

SignKeys == <<"a", "b", "sign", "sign_type">>
SignValues == {"", "x", "y"}
Secrets == {<<"k">>, <<"q">>}

\* the parameter sets: every assignment of values to some of the names
ParamSets == UNION {[D -> SignValues] : D \in SUBSET {SignKeys[i] : i \in DOMAIN SignKeys}}

\* a filter that would keep every parameter
SignedAll(params, k) == TRUE

\* .filter(k => k !== 'sign' && k !== 'sign_type' && params[k] !== '')
Signed(params, k) == k # "sign" /\ k # "sign_type" /\ params[k] # ""

\* .map(k => `${k}=${params[k]}`).join('&')
RECURSIVE JoinPairs(_, _)
JoinPairs(ks, params) ==
  IF ks = <<>> THEN <<>>
  ELSE <<ks[1], "=", params[ks[1]]>>
         \o (IF Len(ks) > 1 THEN <<"&">> \o JoinPairs(Tail(ks), params) ELSE <<>>)

\* Object.keys(params).filter(...).sort().map(...).join('&')
SortedParams(params) ==
  JoinPairs(SelectSeq(SignKeys, LAMBDA k : k \in DOMAIN params /\ Signed(params, k)), params)

\* crypto.createHash('md5').update(str).digest('hex')
md5Sign(str) == <<"md5">> \o str

createSign(params, key) == md5Sign(SortedParams(params) \o key)

verifySign(params, key, sign) == md5Sign(SortedParams(params) \o key) = sign

\* params with name k set to v / without the names in ks
WithParam(params, k, v) == [n \in DOMAIN params \cup {k} |-> IF n = k THEN v ELSE params[n]]
WithoutParams(params, ks) == [n \in DOMAIN params \ ks |-> params[n]]

\* what is presented for verification after params was signed with sign:
\* the same parameters, the parameters with sign, sign_type or an
\* empty-valued parameter added or removed, the parameters with a signed
\* value changed or a signed parameter dropped or added, a signature with one
\* character changed, another secret
Presented(params, key, sign) ==
  {[how |-> "same", params |-> params, key |-> key, sign |-> sign]}
    \cup {[how |-> "unsigned_changed", params |-> WithParam(params, k, v), key |-> key,
           sign |-> sign] : k \in {"sign", "sign_type"}, v \in SignValues}
    \cup {[how |-> "unsigned_changed", params |-> WithoutParams(params, {k}), key |-> key,
           sign |-> sign] : k \in {"sign", "sign_type"}}
    \cup {[how |-> "unsigned_changed", params |-> WithParam(params, k, ""), key |-> key,
           sign |-> sign] : k \in {"a", "b"} \ DOMAIN params}
    \cup {[how |-> "unsigned_changed", params |-> WithoutParams(params, {k}), key |-> key,
           sign |-> sign] : k \in {n \in DOMAIN params : params[n] = ""}}
    \cup UNION {{[how |-> "string_changed", params |-> WithParam(params, k, v), key |-> key,
                   sign |-> sign] : v \in {"x", "y", "z"} \ {params[k]}} :
                 k \in {n \in DOMAIN params \cap {"a", "b"} : params[n] # ""}}
    \cup {[how |-> "string_changed", params |-> WithoutParams(params, {k}), key |-> key,
           sign |-> sign] : k \in {n \in DOMAIN params \cap {"a", "b"} : params[n] # ""}}
    \cup {[how |-> "string_changed", params |-> WithParam(params, k, "x"), key |-> key,
           sign |-> sign] :
            k \in {n \in {"a", "b"} : n \notin DOMAIN params \/ params[n] = ""}}
    \cup {[how |-> "sign_changed", params |-> params, key |-> key,
           sign |-> [sign EXCEPT ![i] = "0"]] : i \in DOMAIN sign}
    \cup {[how |-> "key_changed", params |-> params, key |-> k2, sign |-> sign] :
            k2 \in Secrets \ {key}}

InitSign ==
  /\ orders = <<>>
  /\ balance = [m \in MerchantIds |-> 0]
  /\ ledger = <<>>
  /\ inflight = EmptyBag
  /\ now = 1
  /\ started = 0
  /\ \E p \in ParamSets, k \in Secrets :
       resp = [kind |-> "sign_call", params |-> p, key |-> k]

\* sign = createSign(params, key)
CreateSign ==
  /\ resp.kind = "sign_call"
  /\ resp' = [kind |-> "signed", params |-> resp.params, key |-> resp.key,
              str |-> SortedParams(resp.params), sign |-> createSign(resp.params, resp.key)]
  /\ UNCHANGED <<orders, balance, ledger, inflight, now, started>>

\* ok = verifySign(params, key, sign)
VerifySign ==
  /\ resp.kind = "signed"
  /\ \E v \in Presented(resp.params, resp.key, resp.sign) :
       resp' = [kind |-> "verified", signed |-> resp.params, how |-> v.how,
                params |-> v.params, key |-> v.key, sign |-> v.sign,
                ok |-> verifySign(v.params, v.key, v.sign)]
  /\ UNCHANGED <<orders, balance, ledger, inflight, now, started>>

NextSign == CreateSign \/ VerifySign

SpecSign == InitSign /\ [][NextSign]_vars

\* C25: signature round trip.  What createSign produced for P and K
\* verifies for P and K; the signed string is the pairs k=v of the
\* parameters other than sign, sign_type and the empty-valued ones, in
\* ascending order of k, joined by '&', followed by the secret, so that
\* adding or removing sign, sign_type or an empty-valued parameter keeps the
\* signature valid, while a change of the signed string or of the signature
\* makes verification fail.
C25_SignatureRoundTrip ==
  /\ resp.kind = "signed" =>
       LET p == resp.params
           s == resp.str
           names == {k \in DOMAIN p : k \notin {"sign", "sign_type"} /\ p[k] # ""}
           Rank(k) == CHOOSE i \in DOMAIN SignKeys : SignKeys[i] = k
       IN /\ Len(s) = IF names = {} THEN 0 ELSE 4 * Cardinality(names) - 1
          /\ \A i \in DOMAIN s :
               /\ i % 4 = 1 => s[i] \in names /\ s[i + 1] = "=" /\ s[i + 2] = p[s[i]]
               /\ i % 4 = 0 => s[i] = "&"
               /\ (i % 4 = 1 /\ i + 4 <= Len(s)) => Rank(s[i]) < Rank(s[i + 4])
          /\ resp.sign = <<"md5">> \o s \o resp.key
  /\ resp.kind = "verified" =>
       /\ resp.how \in {"same", "unsigned_changed"} => resp.ok
       /\ resp.how \in {"string_changed", "sign_changed"} => ~resp.ok

\* a sign_type parameter was added to parameters that hold an empty value,
\* and the signature still verifies
C25_Witness ==
  /\ resp.kind = "verified"
  /\ resp.how = "unsigned_changed"
  /\ DOMAIN resp.signed = {"a", "b"}
  /\ resp.signed["a"] = "" /\ resp.signed["b"] = "y"
  /\ "sign_type" \in DOMAIN resp.params
  /\ resp.params["sign_type"] = "x"
  /\ resp.sign = <<"md5", "b", "=", "y", "k">>
  /\ resp.ok

\* C26: the fee fields that the channel lock of /dopay persists are computed
\* with the rate resolved from the merchant's full fee configuration (rate
\* map, then uniform rate, then pay group): for the same merchant, pay type
\* and money they are the fee_money and real_money that creating the order
\* with that pay type gives.
C26_LockFeeAsCreate ==
  resp.kind = "lock_fee" =>
    LET rate == getMerchantFeeRate(resp.merchant, resp.payType, resp.groups)
    IN /\ resp.rate = rate
       /\ resp.fee_money = FeeMoney(resp.money, rate)
       /\ resp.real_money = RealMoney(resp.money, FeeMoney(resp.money, rate), resp.fee_payer)

\* C27: end-to-end age eligibility.  An order whose cert_info carries a
\* minimum age m >= 0 is never attached to a channel whose force_min_age is
\* greater than m, whether the channel comes from a submission that names a
\* pay type or a channel_id or from the selection of /dopay.
C27_AgeEligibleChannel ==
  \A i \in OrderIds :
    (orders[i].min_age # NoAge /\ orders[i].channel_id # NULL)
      => LET age == ChannelTable[orders[i].channel_id].force_min_age
         IN age = NoAge \/ (age # NaNAge /\ age <= orders[i].min_age)


\* C28: polling-group fallthrough.  When the pay type is in polling-group
\* mode (channel_mode -3) and the polling group it names is missing,
\* disabled, empty or has no enabled member that passes the age filter, the
\* call does not fail: it returns, through direct selection, an enabled
\* channel of the pay type that passes the age filter, and it returns none
\* only when there is no such channel.
C28_PollingFallthrough ==
  LET k == ResolvePayGroup(resp.payGroups, resp.payGroupId)
      id == getPayTypeByName(resp.payType)
      tc == resp.payGroups[k].config[id]
      AgeOk(c) == \/ resp.minAge \in {NoAge, NaNAge}
                  \/ resp.channels[c].force_min_age = NoAge
                  \/ /\ resp.channels[c].force_min_age # NaNAge
                     /\ resp.channels[c].force_min_age <= resp.minAge
      Usable(c) == c \in DOMAIN resp.channels /\ resp.channels[c].status = 1 /\ AgeOk(c)
      members == IF tc.group_id \in DOMAIN resp.channelGroups
                      /\ resp.channelGroups[tc.group_id].status = 1
                   THEN {resp.channelGroups[tc.group_id].channels[i].id :
                           i \in DOMAIN resp.channelGroups[tc.group_id].channels}
                   ELSE {}
      candidates == {c \in DOMAIN resp.channels :
                       resp.payType \in resp.channels[c].pay_type /\ Usable(c)}
  IN (/\ resp.kind \in {"selected", "no_channel"}
      /\ k # NULL
      /\ id \in DOMAIN resp.payGroups[k].config
      /\ tc.channel_mode = -3
      /\ \A c \in members : ~Usable(c))
       => /\ resp.kind = "no_channel" <=> candidates = {}
          /\ resp.kind = "selected" => resp.via = "direct" /\ resp.channel \in candidates

\* the polling group holds channel 2, disabled, and channel 3, which wants
\* 18 while the call asks for 16: channel 1 of the pay type is returned
C28_Witness ==
  /\ resp.kind = "selected"
  /\ resp.via = "direct"
  /\ resp.channel = 1
  /\ resp.payType = "alipay"
  /\ resp.minAge = 16
  /\ DOMAIN resp.payGroups = {1}
  /\ 1 \in DOMAIN resp.payGroups[1].config
  /\ resp.payGroups[1].config[1].channel_mode = -3
  /\ resp.payGroups[1].config[1].group_id = 1
  /\ resp.channelGroups # <<>>
  /\ resp.channelGroups[1].status = 1
  /\ resp.channelGroups[1].channels = <<Member(2, NoWeight), Member(3, NoWeight)>>
  /\ resp.channels[2].status = 0
  /\ resp.channels[3].force_min_age = 18


\* C29: the polling-group path.  A channel returned through the polling
\* group is a member of the polling group the pay type names, is enabled
\* and passes the age filter.  Under first-available (group mode 2) it is
\* the earliest such member in the order of the group's list.  Under
\* weighted-random (group mode 1) the members that remain share the draw in
\* list order, each holding as many of its values as its weight, a member
\* without a weight holding one.
C29_PollingGroupPath ==
  LET k == ResolvePayGroup(resp.payGroups, resp.payGroupId)
      id == getPayTypeByName(resp.payType)
      tc == resp.payGroups[k].config[id]
      group == resp.channelGroups[tc.group_id]
      list == group.channels
      AgeOk(c) == \/ resp.minAge \in {NoAge, NaNAge}
                  \/ resp.channels[c].force_min_age = NoAge
                  \/ /\ resp.channels[c].force_min_age # NaNAge
                     /\ resp.channels[c].force_min_age <= resp.minAge
      Usable(c) == c \in DOMAIN resp.channels /\ resp.channels[c].status = 1 /\ AgeOk(c)
      Share(m) == IF ~Usable(m.id) THEN 0
                  ELSE IF m.weight = NoWeight THEN 1 ELSE m.weight
      upTo[i \in 0..Len(list)] == IF i = 0 THEN 0 ELSE upTo[i - 1] + Share(list[i])
  IN (resp.kind = "selected" /\ resp.via = "poll") =>
       /\ k # NULL
       /\ id \in DOMAIN resp.payGroups[k].config
       /\ tc.channel_mode = -3
       /\ tc.group_id \in DOMAIN resp.channelGroups
       /\ group.status = 1
       /\ Usable(resp.channel)
       /\ \E i \in DOMAIN list :
            /\ list[i].id = resp.channel
            /\ group.mode = 2 => \A j \in 1..(i - 1) : ~Usable(list[j].id)
            /\ group.mode = 1 => upTo[i - 1] <= resp.draw /\ resp.draw < upTo[i]

\* weighted-random over channel 3 with weight 2 and channel 1 without a
\* weight, both enabled and eligible: the third value of the draw returns
\* channel 1
C29_Witness ==
  /\ resp.kind = "selected"
  /\ resp.via = "poll"
  /\ resp.channel = 1
  /\ resp.draw = 2
  /\ resp.channelGroups # <<>>
  /\ resp.channelGroups[1].mode = 1
  /\ resp.channelGroups[1].channels = <<Member(3, 2), Member(1, NoWeight)>>


\* C30: single-candidate shortcut.  When the call reaches direct selection
\* (the pay type is not disabled and no polling group supplied a channel)
\* and exactly one enabled channel of the pay type passes the age filter,
\* that channel is returned whatever channel_mode is, a positive
\* channel_mode naming another channel included.
C30_SingleCandidate ==
  LET k == ResolvePayGroup(resp.payGroups, resp.payGroupId)
      id == getPayTypeByName(resp.payType)
      hasType == k # NULL /\ id \in DOMAIN resp.payGroups[k].config
      tc == resp.payGroups[k].config[id]
      AgeOk(c) == \/ resp.minAge \in {NoAge, NaNAge}
                  \/ resp.channels[c].force_min_age = NoAge
                  \/ /\ resp.channels[c].force_min_age # NaNAge
                     /\ resp.channels[c].force_min_age <= resp.minAge
      Usable(c) == c \in DOMAIN resp.channels /\ resp.channels[c].status = 1 /\ AgeOk(c)
      members == IF hasType /\ tc.channel_mode = -3
                      /\ tc.group_id \in DOMAIN resp.channelGroups
                      /\ resp.channelGroups[tc.group_id].status = 1
                   THEN {resp.channelGroups[tc.group_id].channels[i].id :
                           i \in DOMAIN resp.channelGroups[tc.group_id].channels}
                   ELSE {}
      candidates == {c \in DOMAIN resp.channels :
                       resp.payType \in resp.channels[c].pay_type /\ Usable(c)}
  IN (/\ resp.kind \in {"selected", "no_channel"}
      /\ hasType => tc.channel_mode # 0
      /\ \A c \in members : ~Usable(c)
      /\ Cardinality(candidates) = 1)
       => /\ resp.kind = "selected"
          /\ resp.via = "direct"
          /\ candidates = {resp.channel}

\* channel_mode 2 names channel 2, which is disabled: channel 1, the only
\* candidate, is returned
C30_Witness ==
  /\ resp.kind = "selected"
  /\ resp.via = "direct"
  /\ resp.channel = 1
  /\ resp.payType = "alipay"
  /\ DOMAIN resp.payGroups = {1}
  /\ 1 \in DOMAIN resp.payGroups[1].config
  /\ resp.payGroups[1].config[1].channel_mode = 2
  /\ resp.channels[2].status = 0
  /\ resp.channels[1].force_min_age = NoAge


\* C31: mode application.  When the call reaches direct selection and two
\* or more enabled channels of the pay type pass the age filter, a positive
\* channel_mode returns the channel with that id when it is among them and
\* the one with the least id otherwise, channel_mode -5 returns the one
\* with the least id, and every other mode (-1, -4, -3 without a usable
\* polling group, no entry for the pay type) returns one of them; the
\* returned channel is always enabled, serves the pay type and passes the
\* age filter.
C31_ModeApplication ==
  LET k == ResolvePayGroup(resp.payGroups, resp.payGroupId)
      id == getPayTypeByName(resp.payType)
      hasType == k # NULL /\ id \in DOMAIN resp.payGroups[k].config
      tc == resp.payGroups[k].config[id]
      AgeOk(c) == \/ resp.minAge \in {NoAge, NaNAge}
                  \/ resp.channels[c].force_min_age = NoAge
                  \/ /\ resp.channels[c].force_min_age # NaNAge
                     /\ resp.channels[c].force_min_age <= resp.minAge
      Usable(c) == c \in DOMAIN resp.channels /\ resp.channels[c].status = 1 /\ AgeOk(c)
      members == IF hasType /\ tc.channel_mode = -3
                      /\ tc.group_id \in DOMAIN resp.channelGroups
                      /\ resp.channelGroups[tc.group_id].status = 1
                   THEN {resp.channelGroups[tc.group_id].channels[i].id :
                           i \in DOMAIN resp.channelGroups[tc.group_id].channels}
                   ELSE {}
      candidates == {c \in DOMAIN resp.channels :
                       resp.payType \in resp.channels[c].pay_type /\ Usable(c)}
      least == CHOOSE c \in candidates : \A d \in candidates : c <= d
  IN (/\ resp.kind \in {"selected", "no_channel"}
      /\ hasType => tc.channel_mode # 0
      /\ \A c \in members : ~Usable(c)
      /\ Cardinality(candidates) >= 2)
       => /\ resp.kind = "selected"
          /\ resp.via = "direct"
          /\ resp.channel \in candidates
          /\ (hasType /\ tc.channel_mode > 0) =>
               resp.channel = IF tc.channel_mode \in candidates THEN tc.channel_mode ELSE least
          /\ (hasType /\ tc.channel_mode = -5) => resp.channel = least

\* channel_mode 3 names a channel of another pay type while channels 1 and
\* 2 are both candidates: channel 1 is returned
C31_Witness ==
  /\ resp.kind = "selected"
  /\ resp.via = "direct"
  /\ resp.channel = 1
  /\ resp.payType = "alipay"
  /\ resp.minAge = 18
  /\ DOMAIN resp.payGroups = {1}
  /\ 1 \in DOMAIN resp.payGroups[1].config
  /\ resp.payGroups[1].config[1].channel_mode = 3
  /\ resp.channels[2].status = 1
  /\ resp.channels[1].force_min_age = 18
  /\ resp.channels[2].force_min_age = NoAge


\* ------------------------------------------------------------- dispatch, one request at a time
\* /dopay, the two callbacks and the soft delete of a channel run without
\* interruption on one order.  provider_channels changes here: resp carries
\* the status column (status), the channels the health monitor closed
\* (closed) and the soft-deleted ones (deleted) from request to request,
\* and, of the latest request, the channel whose plugin was invoked
\* (invoked), the error string the plugin reported (error, errorKind) and
\* the calls of checkAndAutoCloseChannel (monitor).
MaxDispatch == 2

\* the check_paymsg setting: the keyword a
CheckPaymsg == <<"a">>

\* error strings of a plugin: none, one with the keyword, one without
DispatchMsgs == {<<>>, <<"a">>, <<"b">>}

\* what the plugin's payment method does: a payment instruction, a result
\* of type 'error' with result.msg, an exception with error.message
PluginOutcomes ==
  [type : {"ok"}, msg : {<<>>}] \cup [type : {"error", "throw"}, msg : DispatchMsgs]

\* what the plugin's notify / returnCallback answers
VerifyOutcomes == [success : BOOLEAN, msg : DispatchMsgs]

\* the order of merchant 1: without pay type and channel, with a pay type
\* only, locked on channel 2, paid; of 0.50 or 100.00
DispatchOrders ==
  LET row(m, t, c) == NewOrderRow([NewHandler EXCEPT !.kind = "submit_v1", !.mid = 1, !.chan = c,
                                                     !.ptype = t, !.money = m,
                                                     !.fee = IF t = "" THEN 0 ELSE FeeMoney(m, 300),
                                                     !.outno = 1, !.tno = 1])
  IN {row(m, t, NULL) : m \in {50, 10000}, t \in {"", "alipay"}}
       \cup {row(10000, "alipay", 2),
             [row(10000, "alipay", 2) EXCEPT !.status = 1, !.paid_at = 1, !.api_trade_no = 1]}

InitDispatch ==
  /\ \E o \in DispatchOrders : orders = <<o>>
  /\ ledger = <<0>>
  /\ balance = [m \in MerchantIds |-> 0]
  /\ inflight = EmptyBag
  /\ resp = [kind |-> "", code |-> "",
             status |-> [c \in ChannelIds |-> ChannelTable[c].status],
             closed |-> {}, deleted |-> {},
             invoked |-> NULL, error |-> <<>>, errorKind |-> "none", monitor |-> <<>>]
  /\ now = 1
  /\ started = 0

ReceiveDispatch ==
  /\ started < MaxDispatch
  /\ started' = started + 1

\* resp as a request of the given kind finds it
Fresh(kind) ==
  [resp EXCEPT !.kind = kind, !.code = "", !.invoked = NULL, !.error = <<>>,
               !.errorKind = "none", !.monitor = <<>>]

\* provider_channels as the request reads it
DispatchChannels == [c \in ChannelIds |-> [ChannelTable[c] EXCEPT !.status = resp.status[c]]]

\* checkAndAutoCloseChannel(errorMsg, channel) with check_paymsg set: the
\* call is recorded; the channel is closed when a keyword matches
AutoClose(r, errorMsg, channel) ==
  LET hit == errorMsg # <<>> /\ MatchedKeywords(errorMsg, CheckPaymsg) # <<>>
  IN [r EXCEPT !.monitor = Append(@, [msg |-> errorMsg, channel |-> channel]),
               !.status[channel] = IF hit THEN 0 ELSE @,
               !.closed = IF hit THEN @ \cup {channel} ELSE @]

\* the plugin call of /dopay on channel c and what follows it: the result
\* of type 'error' goes to checkAndAutoCloseChannel; in the catch block
\* channelConfig, declared inside the try block, is not in scope, typeof
\* gives 'undefined' and checkAndAutoCloseChannel is not called
InvokePlugin(c, out) ==
  LET r == [Fresh("dopay") EXCEPT !.invoked = c]
  IN IF out.type = "ok" THEN [r EXCEPT !.code = "ok"]
     ELSE IF out.type = "error"
       THEN AutoClose([r EXCEPT !.code = "plugin_error", !.error = out.msg, !.errorKind = "result"],
                      out.msg, c)
     ELSE [r EXCEPT !.code = "exception", !.error = out.msg, !.errorKind = "thrown"]

\* router.post('/dopay', ...)
DoPay ==
  /\ ReceiveDispatch
  /\ \E payTypeIn \in PayTypes \cup {""}, out \in PluginOutcomes :
       LET o == orders[1]
           finalPayType == IF payTypeIn # "" THEN payTypeIn ELSE o.pay_type
           feeRate == getMerchantFeeRate(DoPayMerchant(MerchantTable[o.merchant_id]),
                                         finalPayType, PayGroupTable)
           cs == {s.channel : s \in selectChannelFromGroup(finalPayType, NULL, DoPayMinAge(o),
                                      PayGroupTable, ChannelGroupTable, DispatchChannels)}
       IN IF o.status # 0
            THEN resp' = [Fresh("dopay") EXCEPT !.code = "status_invalid"] /\ UNCHANGED orders
          ELSE IF o.channel_id # NULL
            THEN resp' = InvokePlugin(o.channel_id, out) /\ UNCHANGED orders
          ELSE IF finalPayType = ""
            THEN resp' = [Fresh("dopay") EXCEPT !.code = "no_pay_type"] /\ UNCHANGED orders
          ELSE IF cs = {}
            THEN resp' = [Fresh("dopay") EXCEPT !.code = "no_channel"] /\ UNCHANGED orders
          ELSE \E c \in cs :
                 LET h == [NewHandler EXCEPT !.kind = "dopay", !.oid = 1, !.mid = o.merchant_id,
                                             !.chan = c, !.ptype = finalPayType,
                                             !.money = o.money,
                                             !.fee = FeeMoney(o.money, feeRate)]
                 IN /\ orders' = [orders EXCEPT ![1] = LockedRow(@, h)]
                    /\ resp' = InvokePlugin(c, out)
  /\ UNCHANGED <<balance, ledger, inflight, now>>

\* /notify/:trade_no and /return/:trade_no: the plugin of the order's
\* channel verifies the callback; a verified one on a pending order writes
\* paid and settles; an unverified one may carry an error string, which is
\* logged or rendered and goes nowhere else
DispatchCallback(kind) ==
  /\ \E v \in VerifyOutcomes :
       LET o == orders[1]
           r == [Fresh(kind) EXCEPT !.invoked = o.channel_id]
           rq == [throws |-> "none", tx |-> "commit", delivered |-> TRUE]
       IN IF o.channel_id = NULL
            THEN /\ resp' = [Fresh(kind) EXCEPT !.code = "no_channel"]
                 /\ UNCHANGED <<orders, balance, ledger, now>>
          ELSE IF ~v.success
            THEN /\ resp' = [r EXCEPT !.code = "unverified", !.error = v.msg,
                                      !.errorKind = IF v.msg = <<>> THEN "none" ELSE "verify"]
                 /\ UNCHANGED <<orders, balance, ledger, now>>
          ELSE IF o.status # 0
            THEN /\ resp' = [r EXCEPT !.code = "already_paid"]
                 /\ UNCHANGED <<orders, balance, ledger, now>>
          ELSE \E t \in Clock :
                 LET paid == [orders EXCEPT ![1] = PaidRow(@, [NewHandler EXCEPT !.api = 1], t)]
                     after == sendDownstreamNotify(paid, 1, rq)
                 IN /\ orders' = after[1]
                    /\ balance' = after[2]
                    /\ ledger' = after[3]
                    /\ now' = t
                    /\ resp' = [r EXCEPT !.code = "paid"]
  /\ UNCHANGED inflight

\* router.all('/notify/:trade_no', ...)
DispatchNotify ==
  /\ ReceiveDispatch
  /\ DispatchCallback("notify")

\* router.all('/return/:trade_no', ...)
DispatchReturn ==
  /\ ReceiveDispatch
  /\ DispatchCallback("return")

\* router.post('/channels/delete', ...):
\*   UPDATE provider_channels SET is_deleted = 1 WHERE id = ?
ChannelsDelete ==
  /\ ReceiveDispatch
  /\ \E id \in ChannelIds : resp' = [Fresh("delete") EXCEPT !.code = "ok", !.deleted = @ \cup {id}]
  /\ UNCHANGED <<orders, balance, ledger, inflight, now>>

NextDispatch == DoPay \/ DispatchNotify \/ DispatchReturn \/ ChannelsDelete

SpecDispatch == InitDispatch /\ [][NextDispatch]_vars

\* C32: the health monitor on both paths.  Whenever the plugin reports an
\* error string to a request, as a result of type error or an exception
\* during /dopay, or as the message of a failed verification during notify
\* or return, checkAndAutoCloseChannel has been called with that string
\* and the order's channel.
C32_MonitorOnBothPaths ==
  (resp.errorKind # "none" /\ resp.error # <<>>) =>
     \E i \in DOMAIN resp.monitor :
        resp.monitor[i] = [msg |-> resp.error, channel |-> resp.invoked]


\* C33: a failing dispatch leaves the order alone.  When the plugin that
\* /dopay invokes returns an error result or throws, the order's status,
\* channel_id, pay_type and fee fields are what they were before the
\* request.
C33_FailedDispatchKeepsOrder ==
  [][(resp'.kind = "dopay" /\ resp'.errorKind \in {"result", "thrown"}) =>
       /\ orders'[1].status = orders[1].status
       /\ orders'[1].channel_id = orders[1].channel_id
       /\ orders'[1].pay_type = orders[1].pay_type
       /\ orders'[1].fee_money = orders[1].fee_money
       /\ orders'[1].real_money = orders[1].real_money
       /\ orders'[1].fee_payer = orders[1].fee_payer]_vars

\* C36: a soft-deleted channel is never attached to an order: the channel
\* a request writes into an order's channel_id does not have is_deleted set
\* when the request resolves it.
C36_DeletedChannelNeverAttached ==
  [][(orders[1].channel_id = NULL /\ orders'[1].channel_id # NULL) =>
       orders'[1].channel_id \notin resp.deleted]_vars

\* C37: once the health monitor has closed a channel, no later /dopay
\* invokes that channel's plugin, for an order locked on it earlier
\* included.
C37_ClosedChannelNotInvoked ==
  [][(resp'.kind = "dopay" /\ resp'.invoked # NULL) => resp'.invoked \notin resp.closed]_vars

\* C38: the channel /dopay selects and locks for an order created without
\* a channel admits the order's amount: money is not below the channel's
\* min_amount and not above its max_amount, a bound of 0 being no bound, as
\* the submission checks them.
C38_LockedChannelAdmitsAmount ==
  [][(orders[1].channel_id = NULL /\ orders'[1].channel_id # NULL) =>
       LET channel == ChannelTable[orders'[1].channel_id]
       IN /\ channel.min_amount # 0 => orders'[1].money >= channel.min_amount
          /\ channel.max_amount # 0 => orders'[1].money <= channel.max_amount]_vars


\* C34: order status is monotonic.  In every step of every interleaving of
\* submission, resubmission, select_channel, dopay, notify and return, no
\* order row disappears, a status changes only from pending (0) to paid
\* (1), and the UPDATE of a resubmission leaves a row that is paid as it
\* is.
C34_StatusMonotonic ==
  [][/\ Len(orders') >= Len(orders)
     /\ \A i \in OrderIds :
          orders'[i].status # orders[i].status =>
            orders[i].status = 0 /\ orders'[i].status = 1
     /\ \A h \in Handlers :
          (/\ h.pc = "co_update"
           /\ CopiesIn(h, inflight') < CopiesIn(h, inflight)
           /\ orders[h.oid].status = 1) => orders'[h.oid] = orders[h.oid]]_vars


\* C35: the status the query endpoints report.  A query answered with an
\* order, on /query, /api.php?act=order or /v2/query, carries the status
\* stored in that order's row at the time of the query: 0 pending, 1 paid,
\* 2 closed.
C35_QueryReportsStoredStatus ==
  (resp.kind \in {"query_v1", "query_v2", "handleQuery"} /\ resp.code = "ok") =>
     resp.status = orders[resp.oid].status


\* C39: settlement never decreases a balance.  In every step no merchant's
\* balance goes down; a balance that goes up does so by money - fee_money
\* of the order the callback settles, which is then positive; and when
\* sendDownstreamNotify runs for an order with money - fee_money <= 0 the
\* balances stay as they are, balance_added stays unset and the delivery to
\* the merchant is attempted all the same.
C39_SettlementNeverDecreases ==
  [][/\ \A m \in MerchantIds : balance'[m] >= balance[m]
     /\ balance' # balance =>
          LET o == orders'[resp'.oid]
          IN /\ o.money - o.fee_money > 0
             /\ balance' = [balance EXCEPT ![o.merchant_id] = @ + o.money - o.fee_money]
     /\ (/\ resp'.kind \in {"notify", "return"}
         /\ resp'.oid # NULL
         /\ orders[resp'.oid].status = 0
         /\ orders'[resp'.oid].status = 1
         /\ resp'.note # "not_sent"
         /\ resp'.note # "exception"
         /\ orders[resp'.oid].money - orders[resp'.oid].fee_money <= 0) =>
          /\ balance' = balance
          /\ ~orders'[resp'.oid].balance_added
          /\ orders'[resp'.oid].notify_count = orders[resp'.oid].notify_count + 1]_vars

\* a verified notify has settled the order whose fee is twice its amount
C39_Witness ==
  /\ resp.kind = "notify"
  /\ resp.note = "nothing_to_credit"
  /\ orders[1].status = 1
  /\ orders[1].fee_money = 20000
  /\ ~orders[1].balance_added
  /\ orders[1].notify_count = 1
  /\ balance[1] = 0


\* ------------------------------------------------------------- Telegram bind tokens
\* The in-memory token store: tokenStore maps a token to its { userId,
\* userType, expiresAt }, userTokenMap maps `${userType}:${userId}` to the
\* user's token.  The functions are synchronous, so each runs without
\* interruption.  resp holds the two maps, the number of tokens issued, how
\* often each token was consumed and the outcome of the latest call; now is
\* Date.now() in ticks.  crypto.randomBytes(16) is taken to yield a token
\* never issued before: token n is the n-th one issued.
MaxTokens == 3
MaxTokenClock == 4

\* TOKEN_EXPIRY, in ticks
TokenExpiry == 2

UserTypes == {<<"m">>, <<"a">>}

\* a user id as the caller passes it: a number or a string of its digits
UserIdArgs == [t : {"num", "str"}, v : {1, 2}]

\* String(userId) and the `${userId}` of the template: the digits
Str(userId) == IF userId.v = 1 THEN <<"1">> ELSE <<"2">>

\* `${userType}:${userId}`
UserKey(userType, userId) == userType \o <<":">> \o Str(userId)

\* `${data.userType}:${data.userId}` of a stored entry, whose userId is
\* already a string
DataKey(data) == data.userType \o <<":">> \o data.userId

\* map.delete(key)
Remove(map, key) == [k \in DOMAIN map \ {key} |-> map[k]]

\* map.set(key, value)
Put(map, key, value) == [k \in DOMAIN map \cup {key} |-> IF k = key THEN value ELSE map[k]]

\* a check that would let every stored token pass
NeverExpired(data, t) == FALSE

\* Date.now() > data.expiresAt
Expired(data, t) == t > data.expiresAt

NoCall == [op |-> "", token |-> NULL, ok |-> FALSE, at |-> 0, expiresAt |-> 0]

InitToken ==
  /\ orders = <<>>
  /\ balance = [m \in MerchantIds |-> 0]
  /\ ledger = <<>>
  /\ inflight = EmptyBag
  /\ now = 1
  /\ started = 0
  /\ resp = [kind |-> "tokens", tokenStore |-> <<>>, userTokenMap |-> <<>>, issued |-> 0,
             consumed |-> [t \in 1..MaxTokens |-> 0], last |-> NoCall]

\* time passes
TokenTick ==
  /\ now < MaxTokenClock
  /\ now' = now + 1
  /\ UNCHANGED <<orders, balance, ledger, inflight, resp, started>>

\* generateToken(userId, userType)
generateToken ==
  /\ resp.issued < MaxTokens
  /\ \E userType \in UserTypes, userId \in UserIdArgs :
       LET userKey == UserKey(userType, userId)
           oldToken == IF userKey \in DOMAIN resp.userTokenMap
                         THEN resp.userTokenMap[userKey] ELSE NULL
           kept == IF oldToken # NULL THEN Remove(resp.tokenStore, oldToken) ELSE resp.tokenStore
           token == resp.issued + 1
           expiresAt == now + TokenExpiry
       IN resp' = [resp EXCEPT
                     !.tokenStore = Put(kept, token, [userId |-> Str(userId), userType |-> userType,
                                                      expiresAt |-> expiresAt]),
                     !.userTokenMap = Put(@, userKey, token),
                     !.issued = token,
                     !.last = [op |-> "generate", token |-> token, ok |-> TRUE, at |-> now,
                               expiresAt |-> expiresAt]]
  /\ UNCHANGED <<orders, balance, ledger, inflight, now, started>>

\* verifyAndConsume(token)
verifyAndConsume ==
  /\ \E token \in 1..MaxTokens :
       IF token \notin DOMAIN resp.tokenStore
         THEN resp' = [resp EXCEPT !.last = [op |-> "verify", token |-> token, ok |-> FALSE,
                                             at |-> now, expiresAt |-> 0]]
       ELSE LET data == resp.tokenStore[token]
                ok == ~Expired(data, now)
            IN resp' = [resp EXCEPT
                          !.tokenStore = Remove(@, token),
                          !.userTokenMap = Remove(@, DataKey(data)),
                          !.consumed[token] = IF ok THEN @ + 1 ELSE @,
                          !.last = [op |-> "verify", token |-> token, ok |-> ok, at |-> now,
                                    expiresAt |-> data.expiresAt]]
  /\ UNCHANGED <<orders, balance, ledger, inflight, now, started>>

\* deleteUserToken(userId, userType)
deleteUserToken ==
  /\ \E userType \in UserTypes, userId \in UserIdArgs :
       LET userKey == UserKey(userType, userId)
       IN IF userKey \in DOMAIN resp.userTokenMap
            THEN resp' = [resp EXCEPT
                            !.tokenStore = Remove(@, resp.userTokenMap[userKey]),
                            !.userTokenMap = Remove(@, userKey),
                            !.last = [op |-> "delete", token |-> resp.userTokenMap[userKey],
                                      ok |-> TRUE, at |-> now, expiresAt |-> 0]]
          ELSE resp' = [resp EXCEPT !.last = [op |-> "delete", token |-> NULL, ok |-> FALSE,
                                              at |-> now, expiresAt |-> 0]]
  /\ UNCHANGED <<orders, balance, ledger, inflight, now, started>>

\* cleanup(), also run by the timer: every expired entry goes, with its
\* user's mapping
cleanup ==
  /\ LET gone == {t \in DOMAIN resp.tokenStore : Expired(resp.tokenStore[t], now)}
         keys == {DataKey(resp.tokenStore[t]) : t \in gone}
     IN resp' = [resp EXCEPT
                   !.tokenStore = [t \in DOMAIN @ \ gone |-> @[t]],
                   !.userTokenMap = [k \in DOMAIN @ \ keys |-> @[k]],
                   !.last = [op |-> "cleanup", token |-> NULL, ok |-> gone # {}, at |-> now,
                             expiresAt |-> 0]]
  /\ UNCHANGED <<orders, balance, ledger, inflight, now, started>>

NextToken == TokenTick \/ generateToken \/ verifyAndConsume \/ deleteUserToken \/ cleanup

SpecToken == InitToken /\ [][NextToken]_vars

\* C40: bind tokens are single-use and unique per user.  In every state
\* each user key has at most one token in tokenStore and it is the one
\* userTokenMap gives for the key, every entry of userTokenMap names a token
\* of tokenStore that belongs to that key (so a token replaced by a newer
\* one of the same user is gone), no token has been consumed more than
\* once, and a call of verifyAndConsume that succeeded did so not later
\* than the token's expiresAt.
C40_BindTokens ==
  resp.kind = "tokens" =>
    /\ \A t \in DOMAIN resp.tokenStore :
         LET k == resp.tokenStore[t].userType \o <<":">> \o resp.tokenStore[t].userId
         IN k \in DOMAIN resp.userTokenMap /\ resp.userTokenMap[k] = t
    /\ \A k \in DOMAIN resp.userTokenMap :
         /\ resp.userTokenMap[k] \in DOMAIN resp.tokenStore
         /\ LET d == resp.tokenStore[resp.userTokenMap[k]]
            IN d.userType \o <<":">> \o d.userId = k
    /\ \A s \in DOMAIN resp.tokenStore, t \in DOMAIN resp.tokenStore :
         (/\ resp.tokenStore[s].userType = resp.tokenStore[t].userType
          /\ resp.tokenStore[s].userId = resp.tokenStore[t].userId) => s = t
    /\ \A t \in 1..MaxTokens : resp.consumed[t] <= 1
    /\ (resp.last.op = "verify" /\ resp.last.ok) =>
         /\ resp.last.at <= resp.last.expiresAt
         /\ resp.last.token \notin DOMAIN resp.tokenStore
    /\ resp.last.op = "generate" =>
         \A t \in DOMAIN resp.tokenStore :
           (t # resp.last.token
            /\ resp.tokenStore[t].userType = resp.tokenStore[resp.last.token].userType)
             => resp.tokenStore[t].userId # resp.tokenStore[resp.last.token].userId

\* token 1 was consumed once, a later verifyAndConsume of it failed, and the
\* same user holds a newer token
C40_Witness ==
  /\ resp.kind = "tokens"
  /\ resp.consumed[1] = 1
  /\ resp.last = [op |-> "verify", token |-> 1, ok |-> FALSE, at |-> now, expiresAt |-> 0]
  /\ DOMAIN resp.tokenStore = {2}
  /\ resp.userTokenMap = (<<"m", ":", "1">> :> 2)
====
